---------------------------- MODULE Spec2Model ----------------------------
(***************************************************************************)
(* Domain prompt dispatcher of graphiti_core/prompts: the PromptSelector   *)
(* registries (prompt_factory.py), the dispatch wrappers (lib.py) and the  *)
(* template functions they invoke (extract_nodes.py, cloud/aws/..., ...).  *)
(*                                                                         *)
(* A TemplateSet is a module-level dict `versions`; its identity is the    *)
(* name of the object ("aws_node_versions"), its content the mapping from  *)
(* operation name to template function given by Versions.  A template     *)
(* function is a record [fam, mod, name, kind]; a Message is a record      *)
(* [role, content]; a content string is the sequence of its parts, and     *)
(* string concatenation is \o.                                             *)
(***************************************************************************)
EXTENDS Naturals, Sequences, FiniteSets, TLC

\* ------------------------------------------------------------------ bounds
\* Number of registry slots (family, key) that registrations may write while
\* the selector is exercised.
MaxRegs == 2
\* Number of registry slots that registrations may write while wrapped
\* operations are called.
MaxDispatchRegs == 1
\* Number of suffixes the shared Message objects of the cached custom
\* function may accumulate.
MaxSuffixes == 2
\* Number of registry slots that registrations may write on the keys that
\* share TemplateSets.
MaxSharedRegs == 1

\* --------------------------------------------------------------- constants
DO_NOT_ESCAPE_UNICODE == "\nDo not escape unicode characters.\n"

NodeOps ==
    {"extract_message", "extract_json", "extract_text", "reflexion",
     "classify_nodes", "extract_attributes"}

EdgeOps == {"edge", "reflexion", "extract_attributes"}

\* dict.get(key, default)
DictGet(d, k, dflt) == IF k \in DOMAIN d THEN d[k] ELSE dflt

\* d[k] = v on a dict: insert or replace
DictSet(d, k, v) == [j \in DOMAIN d \cup {k} |-> IF j = k THEN v ELSE d[j]]

\* -------------------------------------------------------- template modules
\* __module__ of the functions of each built-in TemplateSet, as the sequence
\* of the components of the dotted module name.
ModuleOf(set) ==
    CASE set = "generic_node_versions" -> <<"graphiti_core", "prompts", "extract_nodes">>
      [] set = "generic_edge_versions" -> <<"graphiti_core", "prompts", "extract_edges">>
      [] set = "aws_node_versions" -> <<"graphiti_core", "prompts", "cloud", "aws", "extract_nodes">>
      [] set = "aws_edge_versions" -> <<"graphiti_core", "prompts", "cloud", "aws", "extract_edges">>
      [] set = "azure_node_versions" -> <<"graphiti_core", "prompts", "cloud", "azure", "extract_nodes">>
      [] set = "azure_edge_versions" -> <<"graphiti_core", "prompts", "cloud", "azure", "extract_edges">>
      [] set = "gcp_node_versions" -> <<"graphiti_core", "prompts", "cloud", "gcp", "extract_nodes">>
      [] set = "gcp_edge_versions" -> <<"graphiti_core", "prompts", "cloud", "gcp", "extract_edges">>
      [] set = "github_node_versions" -> <<"graphiti_core", "prompts", "github", "extract_nodes">>
      [] set = "github_edge_versions" -> <<"graphiti_core", "prompts", "github", "extract_edges">>
      [] set = "cicd_node_versions" -> <<"graphiti_core", "prompts", "cicd", "extract_nodes">>
      [] set = "cicd_edge_versions" -> <<"graphiti_core", "prompts", "cicd", "extract_edges">>
      [] set = "logs_node_versions" -> <<"graphiti_core", "prompts", "observability", "logs", "extract_nodes">>
      [] set = "metrics_node_versions" -> <<"graphiti_core", "prompts", "observability", "metrics", "extract_nodes">>
      [] set = "metrics_edge_versions" -> <<"graphiti_core", "prompts", "observability", "metrics", "extract_edges">>
      [] set = "traces_node_versions" -> <<"graphiti_core", "prompts", "observability", "traces", "extract_nodes">>
      [] set = "traces_edge_versions" -> <<"graphiti_core", "prompts", "observability", "traces", "extract_edges">>
      [] set = "application_node_versions" -> <<"graphiti_core", "prompts", "extract_nodes_application">>
      [] set = "application_edge_versions" -> <<"graphiti_core", "prompts", "extract_edges_application">>

BuiltinNodeSets ==
    {"generic_node_versions", "aws_node_versions", "azure_node_versions",
     "gcp_node_versions", "github_node_versions", "cicd_node_versions",
     "logs_node_versions", "metrics_node_versions", "traces_node_versions",
     "application_node_versions"}

BuiltinEdgeSets ==
    {"generic_edge_versions", "aws_edge_versions", "azure_edge_versions",
     "gcp_edge_versions", "github_edge_versions", "cicd_edge_versions",
     "metrics_edge_versions", "traces_edge_versions",
     "application_edge_versions"}

\* A template function defined in a prompt module.
TemplateFn(fam, set, name) ==
    [fam |-> fam, mod |-> ModuleOf(set), name |-> name, kind |-> "template"]

\* Python None where a function is expected (dict.get on a missing version).
None == [fam |-> "", mod |-> <<>>, name |-> "", kind |-> "None"]

\* A variant of NodeVersions in which the logs module does not list
\* classify_nodes in its versions.
NodeVersions_logs_incomplete(set) ==
    [op \in (IF set = "logs_node_versions" THEN NodeOps \ {"classify_nodes"} ELSE NodeOps)
        |-> TemplateFn("nodes", set, op)]

\* `versions` of the node prompt modules (extract_nodes.py and the domain
\* extract_nodes.py files): all six node operations.
NodeVersions(set) == [op \in NodeOps |-> TemplateFn("nodes", set, op)]

\* `versions` of the edge prompt modules: the three edge operations.
EdgeVersions(set) == [op \in EdgeOps |-> TemplateFn("edges", set, op)]

\* `versions` of extract_edges.py, the generic edge module.
GenericEdgeVersions == EdgeVersions("generic_edge_versions")

\* ------------------------------------------- TemplateSets a caller registers
\* A function of a caller's module that returns the same two Message objects
\* on every call.
CachedFn ==
    [fam |-> "any", mod |-> <<"caller", "prompts">>, name |-> "cached", kind |-> "cached"]

\* A function of a caller's module that builds three Messages, two of them
\* system messages, from context['episode_content'].
CustomFn ==
    [fam |-> "any", mod |-> <<"caller", "prompts">>, name |-> "custom_op", kind |-> "custom"]

\* func.__module__ of a callable that has no such attribute (an instance of a
\* built-in type, for one).
NoModule == <<>>

\* A caller's callable like CustomFn, without module information.
BareFn ==
    [fam |-> "any", mod |-> NoModule, name |-> "custom_op", kind |-> "custom"]

\* TemplateSets a caller may pass to register_*_prompts:
\*   custom_*_versions  = dict(aws_*_versions): another object, same content;
\*   partial_*_versions = a dict with one standard operation (served by the
\*                        cached function) and one operation of its own (in
\*                        the edge set a callable without __module__).
NodePool == {"custom_node_versions", "partial_node_versions"}

EdgePool == {"custom_edge_versions", "partial_edge_versions"}

\* The content of every TemplateSet object of the model.
Versions(set) ==
    CASE set \in BuiltinNodeSets -> NodeVersions(set)
      [] set = "generic_edge_versions" -> GenericEdgeVersions
      [] set \in BuiltinEdgeSets \ {"generic_edge_versions"} -> EdgeVersions(set)
      [] set = "custom_node_versions" -> NodeVersions("aws_node_versions")
      [] set = "custom_edge_versions" -> EdgeVersions("aws_edge_versions")
      [] set = "partial_node_versions" ->
            ("extract_message" :> CachedFn) @@ ("custom_op" :> CustomFn)
      [] set = "partial_edge_versions" ->
            ("edge" :> CachedFn) @@ ("custom_op" :> BareFn)


\* ------------------------------------------------------------ PromptSelector
\* Keys of PromptSelector._domain_mapping.
DomainMappingKeys ==
    {"aws_resources", "azure_resources", "gcp_resources", "cloud_resources",
     "github_repo", "github_resources", "cicd_resources", "pipeline_resources",
     "logs_resources", "metrics_resources", "traces_resources",
     "observability_resources", "monitoring_resources", "application_resources"}

\* self._domain_mapping.get(source_description, source_description):
\* TRUE when the mapping has a display name for the key.
HasDomainName(source_description) == source_description \in DomainMappingKeys

\* Keys of prompt_helpers.ALL_SOURCE_DESCRIPTIONS: the cloud, GitHub, CI/CD,
\* observability and application source descriptions.
ALL_SOURCE_DESCRIPTIONS ==
    {"aws_resources", "azure_resources", "gcp_resources", "cloud_resources"}
        \cup {"github_repo", "github_resources"}
        \cup {"cicd_resources", "pipeline_resources"}
        \cup {"logs_resources", "metrics_resources", "traces_resources",
              "observability_resources", "monitoring_resources"}
        \cup {"application_resources"}

\* Keys of the per-domain dicts of prompt_helpers.
CLOUD_SOURCE_DESCRIPTIONS ==
    {"aws_resources", "azure_resources", "gcp_resources", "cloud_resources"}

GITHUB_SOURCE_DESCRIPTIONS == {"github_repo", "github_resources"}

CICD_SOURCE_DESCRIPTIONS == {"cicd_resources", "pipeline_resources"}

OBSERVABILITY_SOURCE_DESCRIPTIONS ==
    {"logs_resources", "metrics_resources", "traces_resources",
     "observability_resources", "monitoring_resources"}

APPLICATION_SOURCE_DESCRIPTIONS == {"application_resources"}

\* A variant of get_domain_from_source_description without the application
\* branch.
get_domain_from_source_description_four(source_description) ==
    IF source_description \in CLOUD_SOURCE_DESCRIPTIONS THEN "cloud"
    ELSE IF source_description \in GITHUB_SOURCE_DESCRIPTIONS THEN "github"
    ELSE IF source_description \in CICD_SOURCE_DESCRIPTIONS THEN "cicd"
    ELSE IF source_description \in OBSERVABILITY_SOURCE_DESCRIPTIONS THEN "observability"
    ELSE "generic"

\* prompt_helpers.get_domain_from_source_description
get_domain_from_source_description(source_description) ==
    IF source_description \in CLOUD_SOURCE_DESCRIPTIONS THEN "cloud"
    ELSE IF source_description \in GITHUB_SOURCE_DESCRIPTIONS THEN "github"
    ELSE IF source_description \in CICD_SOURCE_DESCRIPTIONS THEN "cicd"
    ELSE IF source_description \in OBSERVABILITY_SOURCE_DESCRIPTIONS THEN "observability"
    ELSE IF source_description \in APPLICATION_SOURCE_DESCRIPTIONS THEN "application"
    ELSE "generic"

\* prompt_helpers.get_subdomain_from_source_description
get_subdomain_from_source_description(source_description) ==
    CASE source_description = "aws_resources" -> "aws"
      [] source_description = "azure_resources" -> "azure"
      [] source_description = "gcp_resources" -> "gcp"
      [] source_description = "logs_resources" -> "logs"
      [] source_description = "metrics_resources" -> "metrics"
      [] source_description = "traces_resources" -> "traces"
      [] source_description = "application_resources" -> "application"
      [] OTHER -> "generic"

\* prompt_helpers.validate_source_description
validate_source_description(source_description) ==
    source_description \in ALL_SOURCE_DESCRIPTIONS

\* A variant of the initial node registry whose AWS key holds the generic set.
InitialNodeRegistry_aws_generic ==
    ("aws_resources" :> "generic_node_versions") @@
    ("azure_resources" :> "azure_node_versions") @@
    ("gcp_resources" :> "gcp_node_versions") @@
    ("cloud_resources" :> "aws_node_versions") @@
    ("github_repo" :> "github_node_versions") @@
    ("github_resources" :> "github_node_versions") @@
    ("cicd_resources" :> "cicd_node_versions") @@
    ("pipeline_resources" :> "cicd_node_versions") @@
    ("logs_resources" :> "logs_node_versions") @@
    ("metrics_resources" :> "metrics_node_versions") @@
    ("traces_resources" :> "traces_node_versions") @@
    ("observability_resources" :> "metrics_node_versions") @@
    ("monitoring_resources" :> "metrics_node_versions") @@
    ("application_resources" :> "application_node_versions")

InitialNodeRegistry ==
    ("aws_resources" :> "aws_node_versions") @@
    ("azure_resources" :> "azure_node_versions") @@
    ("gcp_resources" :> "gcp_node_versions") @@
    ("cloud_resources" :> "aws_node_versions") @@
    ("github_repo" :> "github_node_versions") @@
    ("github_resources" :> "github_node_versions") @@
    ("cicd_resources" :> "cicd_node_versions") @@
    ("pipeline_resources" :> "cicd_node_versions") @@
    ("logs_resources" :> "logs_node_versions") @@
    ("metrics_resources" :> "metrics_node_versions") @@
    ("traces_resources" :> "traces_node_versions") @@
    ("observability_resources" :> "metrics_node_versions") @@
    ("monitoring_resources" :> "metrics_node_versions") @@
    ("application_resources" :> "application_node_versions")

InitialEdgeRegistry ==
    ("aws_resources" :> "aws_edge_versions") @@
    ("azure_resources" :> "azure_edge_versions") @@
    ("gcp_resources" :> "gcp_edge_versions") @@
    ("cloud_resources" :> "aws_edge_versions") @@
    ("github_repo" :> "github_edge_versions") @@
    ("github_resources" :> "github_edge_versions") @@
    ("cicd_resources" :> "cicd_edge_versions") @@
    ("pipeline_resources" :> "cicd_edge_versions") @@
    ("metrics_resources" :> "metrics_edge_versions") @@
    ("traces_resources" :> "traces_edge_versions") @@
    ("observability_resources" :> "metrics_edge_versions") @@
    ("monitoring_resources" :> "metrics_edge_versions") @@
    ("application_resources" :> "application_edge_versions")

\* PromptSelector.__init__: the object `prompt_selector` after construction.
PromptSelectorInit ==
    [node_registry |-> InitialNodeRegistry,
     edge_registry |-> InitialEdgeRegistry,
     default_nodes |-> "generic_node_versions",
     default_edges |-> "generic_edge_versions"]

\* One record of the logging module: level, the message's tag, its subject.
LogRecord(level, tag, about) == [level |-> level, tag |-> tag, about |-> about]

\* A variant of register_node_prompts that replaces the entry of every key
\* holding the TemplateSet object the key held.
register_node_prompts_aliased(self, source_description, prompt_versions) ==
    [self |-> [self EXCEPT !.node_registry =
                  LET old == DictGet(@, source_description, "")
                      d == DictSet(@, source_description, prompt_versions)
                  IN  [k \in DOMAIN d |-> IF d[k] = old THEN prompt_versions ELSE d[k]]],
     log |-> <<LogRecord("info", "registered", source_description)>>]

\* A variant of register_node_prompts that stores the set in both registries.
register_node_prompts_both(self, source_description, prompt_versions) ==
    [self |-> [self EXCEPT !.node_registry =
                  DictSet(@, source_description, prompt_versions),
                           !.edge_registry =
                  DictSet(@, source_description, prompt_versions)],
     log |-> <<LogRecord("info", "registered", source_description)>>]

\* A variant of register_node_prompts that keeps an entry already present
\* (dict.setdefault instead of assignment).
register_node_prompts_keep(self, source_description, prompt_versions) ==
    [self |-> [self EXCEPT !.node_registry =
                  IF source_description \in DOMAIN @ THEN @
                  ELSE DictSet(@, source_description, prompt_versions)],
     log |-> <<LogRecord("info", "registered", source_description)>>]

register_node_prompts(self, source_description, prompt_versions) ==
    [self |-> [self EXCEPT !.node_registry =
                  DictSet(@, source_description, prompt_versions)],
     log |-> <<LogRecord("info", "registered", source_description)>>]

\* A variant of register_edge_prompts that treats keys holding the same
\* TemplateSet object as aliases and replaces the entry of each of them.
register_edge_prompts_aliased(self, source_description, prompt_versions) ==
    [self |-> [self EXCEPT !.edge_registry =
                  LET old == DictGet(@, source_description, "")
                      d == DictSet(@, source_description, prompt_versions)
                  IN  [k \in DOMAIN d |-> IF d[k] = old THEN prompt_versions ELSE d[k]]],
     log |-> <<LogRecord("info", "registered", source_description)>>]

register_edge_prompts(self, source_description, prompt_versions) ==
    [self |-> [self EXCEPT !.edge_registry =
                  DictSet(@, source_description, prompt_versions)],
     log |-> <<LogRecord("info", "registered", source_description)>>]

\* `not source_description` on a str
Falsy(source_description) == source_description = ""

\* str.lower() on the keys of the model.
Lower(source_description) ==
    IF source_description = "AWS_RESOURCES" THEN "aws_resources" ELSE source_description

\* A variant of get_node_prompts that matches the key regardless of case.
get_node_prompts_casefold(self, source_description) ==
    IF Falsy(source_description)
    THEN [self |-> self, ret |-> self.default_nodes,
          log |-> <<LogRecord("info", "no_source_description", source_description)>>]
    ELSE IF Lower(source_description) \in DOMAIN self.node_registry
         THEN [self |-> self, ret |-> self.node_registry[Lower(source_description)],
               log |-> <<LogRecord("info", "found", source_description)>>]
         ELSE [self |-> self, ret |-> self.default_nodes,
               log |-> <<LogRecord("warning", "fallback", source_description)>>]

\* A variant of get_node_prompts that tests membership in _domain_mapping
\* instead of the registry.
get_node_prompts_mapped(self, source_description) ==
    IF Falsy(source_description)
    THEN [self |-> self, ret |-> self.default_nodes,
          log |-> <<LogRecord("info", "no_source_description", source_description)>>]
    ELSE IF /\ HasDomainName(source_description)
            /\ source_description \in DOMAIN self.node_registry
         THEN [self |-> self, ret |-> self.node_registry[source_description],
               log |-> <<LogRecord("info", "found", source_description)>>]
         ELSE [self |-> self, ret |-> self.default_nodes,
               log |-> <<LogRecord("warning", "fallback", source_description)>>]

\* A variant of get_node_prompts whose registry is a defaultdict-like
\* mapping: the fallback stores the default set under the unknown key.
get_node_prompts_inserting(self, source_description) ==
    IF Falsy(source_description)
    THEN [self |-> self, ret |-> self.default_nodes,
          log |-> <<LogRecord("info", "no_source_description", source_description)>>]
    ELSE IF source_description \in DOMAIN self.node_registry
         THEN [self |-> self, ret |-> self.node_registry[source_description],
               log |-> <<LogRecord("info", "found", source_description)>>]
         ELSE [self |-> [self EXCEPT !.node_registry =
                            DictSet(@, source_description, self.default_nodes)],
               ret |-> self.default_nodes,
               log |-> <<LogRecord("warning", "fallback", source_description)>>]

get_node_prompts(self, source_description) ==
    IF Falsy(source_description)
    THEN [self |-> self, ret |-> self.default_nodes,
          log |-> <<LogRecord("info", "no_source_description", source_description)>>]
    ELSE IF source_description \in DOMAIN self.node_registry
         THEN [self |-> self, ret |-> self.node_registry[source_description],
               log |-> <<LogRecord("info", "found", source_description)>>]
         ELSE [self |-> self, ret |-> self.default_nodes,
               log |-> <<LogRecord("warning", "fallback", source_description)>>]

\* A variant of get_edge_prompts that logs the fallback at info level.
get_edge_prompts_quiet(self, source_description) ==
    IF Falsy(source_description)
    THEN [self |-> self, ret |-> self.default_edges,
          log |-> <<LogRecord("info", "no_source_description", source_description)>>]
    ELSE IF source_description \in DOMAIN self.edge_registry
         THEN [self |-> self, ret |-> self.edge_registry[source_description],
               log |-> <<LogRecord("info", "found", source_description)>>]
         ELSE [self |-> self, ret |-> self.default_edges,
               log |-> <<LogRecord("info", "fallback", source_description)>>]

\* A variant of get_edge_prompts that reads the node registry.
get_edge_prompts_from_nodes(self, source_description) ==
    IF Falsy(source_description)
    THEN [self |-> self, ret |-> self.default_edges,
          log |-> <<LogRecord("info", "no_source_description", source_description)>>]
    ELSE IF source_description \in DOMAIN self.node_registry
         THEN [self |-> self, ret |-> self.node_registry[source_description],
               log |-> <<LogRecord("info", "found", source_description)>>]
         ELSE [self |-> self, ret |-> self.default_edges,
               log |-> <<LogRecord("warning", "fallback", source_description)>>]

get_edge_prompts(self, source_description) ==
    IF Falsy(source_description)
    THEN [self |-> self, ret |-> self.default_edges,
          log |-> <<LogRecord("info", "no_source_description", source_description)>>]
    ELSE IF source_description \in DOMAIN self.edge_registry
         THEN [self |-> self, ret |-> self.edge_registry[source_description],
               log |-> <<LogRecord("info", "found", source_description)>>]
         ELSE [self |-> self, ret |-> self.default_edges,
               log |-> <<LogRecord("warning", "fallback", source_description)>>]

\* A variant of context_get that stores the default it returns, as
\* context.setdefault(key, default) does.
context_setdefault(context, key, dflt) ==
    [value |-> DictGet(context, key, dflt),
     context |-> IF key \in DOMAIN context THEN context ELSE DictSet(context, key, dflt)]

\* context.get(key, default) on the caller's dict: the value read and the
\* dict as the read leaves it.
context_get(context, key, dflt) ==
    [value |-> DictGet(context, key, dflt), context |-> context]

\* Module-level functions over the global prompt_selector (here `self`): the
\* selector as the call leaves it, its result and the caller's context as the
\* function leaves it.
get_extract_node_prompts(self, context) ==
    LET source_description == context_get(context, "source_description", "")
        r == get_node_prompts(self, source_description.value)
    IN  [self |-> r.self, ret |-> r.ret, log |-> r.log,
         context |-> source_description.context]

get_extract_edge_prompts(self, context) ==
    LET source_description == context_get(context, "source_description", "")
        r == get_edge_prompts(self, source_description.value)
    IN  [self |-> r.self, ret |-> r.ret, log |-> r.log,
         context |-> source_description.context]

\* -------------------------------------------------------- template functions
\* One part of a content string: literal text of a prompt module (fmt "text",
\* identified by module, function and role), or a context value formatted by
\* the f-string (fmt "str") or by json.dumps (fmt "json").
TextPart(f, role) == [fmt |-> "text", mod |-> f.mod, name |-> f.name, v |-> role]

ValuePart(fmt, key, value) == [fmt |-> fmt, mod |-> <<>>, name |-> key, v |-> value]

SuffixPart == [fmt |-> "text", mod |-> <<>>, name |-> "", v |-> DO_NOT_ESCAPE_UNICODE]

Message(role, content) == [role |-> role, content |-> content]

\* The words that follow "You are an AI assistant specialized in extracting"
\* in the sys_prompt literal of a node module's extract_message.
ExtractMessageSubject(mod) ==
    CASE mod = ModuleOf("generic_node_versions") ->
            <<"application", "entities", "and", "infrastructure", "dependencies">>
      [] mod = ModuleOf("aws_node_versions") -> <<"AWS", "infrastructure", "entities">>
      [] mod = ModuleOf("azure_node_versions") -> <<"Azure", "infrastructure", "entities">>
      [] mod = ModuleOf("gcp_node_versions") -> <<"GCP", "infrastructure", "entities">>
      [] mod = ModuleOf("github_node_versions") -> <<"GitHub", "repository", "entities">>
      [] mod = ModuleOf("cicd_node_versions") -> <<"CI/CD", "pipeline", "entities">>
      [] mod = ModuleOf("logs_node_versions") ->
            <<"logging", "and", "observability", "entities">>
      [] mod = ModuleOf("metrics_node_versions") ->
            <<"metrics", "and", "monitoring", "entities">>
      [] mod = ModuleOf("traces_node_versions") -> <<"distributed", "tracing", "entities">>
      [] mod = ModuleOf("application_node_versions") ->
            <<"main", "application", "entities">>
      [] OTHER -> <<>>

\* phrase in text, on sequences of words
IsInfix(phrase, text) ==
    \E i \in 0..(Len(text) - Len(phrase)) :
       \A j \in 1..Len(phrase) : text[i + j] = phrase[j]

\* `phrase in content` for a content made of parts: the phrase lies in the
\* literal text of one part (of an extract_message system prompt).
ContentContains(content, phrase) ==
    \E i \in 1..Len(content) :
       /\ content[i].fmt = "text"
       /\ content[i].name = "extract_message"
       /\ content[i].v = "system"
       /\ IsInfix(phrase, ExtractMessageSubject(content[i].mod))

Read(key, fmt) == [key |-> key, fmt |-> fmt]

\* The context keys a template function subscripts, in evaluation order, and
\* how each value is formatted.  The same in every node module and in every
\* edge module.
ReadKeys(f) ==
    CASE f.fam = "nodes" /\ f.name = "extract_message" ->
            <<Read("previous_episodes", "json"), Read("episode_content", "str"),
              Read("entity_types", "str"), Read("custom_prompt", "str")>>
      [] f.fam = "nodes" /\ f.name = "extract_json" ->
            <<Read("source_description", "str"), Read("episode_content", "str"),
              Read("entity_types", "str"), Read("custom_prompt", "str")>>
      [] f.fam = "nodes" /\ f.name = "extract_text" ->
            <<Read("episode_content", "str"), Read("entity_types", "str"),
              Read("custom_prompt", "str")>>
      [] f.fam = "nodes" /\ f.name = "reflexion" ->
            <<Read("previous_episodes", "json"), Read("episode_content", "str"),
              Read("extracted_entities", "str")>>
      [] f.fam = "nodes" /\ f.name = "classify_nodes" ->
            <<Read("previous_episodes", "json"), Read("episode_content", "str"),
              Read("extracted_entities", "str"), Read("entity_types", "str")>>
      [] f.fam = "nodes" /\ f.name = "extract_attributes" ->
            <<Read("previous_episodes", "json"), Read("episode_content", "json"),
              Read("node", "str")>>
      [] f.fam = "edges" /\ f.name = "edge" ->
            <<Read("previous_episodes", "json"), Read("episode_content", "str"),
              Read("nodes", "str"), Read("reference_time", "str"),
              Read("edge_types", "str"), Read("custom_prompt", "str")>>
      [] f.fam = "edges" /\ f.name = "reflexion" ->
            <<Read("previous_episodes", "json"), Read("episode_content", "str"),
              Read("nodes", "str"), Read("extracted_facts", "str")>>
      [] f.fam = "edges" /\ f.name = "extract_attributes" ->
            <<Read("episode_content", "json"), Read("reference_time", "str"),
              Read("fact", "str")>>
      [] f.kind = "custom" -> <<Read("episode_content", "str")>>
      [] f.kind = "cached" -> <<>>

\* Result of calling a function: the Messages it returns, or the KeyError of
\* the first context[...] subscript that fails.
Returned(messages) == [outcome |-> "ok", errkey |-> "", msgs |-> messages]

Raised(exc, key) == [outcome |-> exc, errkey |-> key, msgs |-> <<>>]

FirstMissing(reads, context) ==
    LET miss == {i \in 1..Len(reads) : reads[i].key \notin DOMAIN context}
    IN  IF miss = {} THEN 0 ELSE CHOOSE i \in miss : \A j \in miss : i <= j

\* A variant of RenderValues that validates the fact against a schema the
\* value does not fit and renders the empty result.
RenderValues_fact_coerced(reads, context) ==
    [i \in 1..Len(reads) |->
        ValuePart(reads[i].fmt, reads[i].key,
                  IF reads[i].key = "fact" THEN "" ELSE context[reads[i].key])]

RenderValues(reads, context) ==
    [i \in 1..Len(reads) |->
        ValuePart(reads[i].fmt, reads[i].key, context[reads[i].key])]

\* A variant of the template functions that reads the context with
\* context.get(key, ''), rendering a missing key as an empty placeholder.
TemplateCall_blank(f, context) ==
    LET reads == ReadKeys(f)
    IN  Returned(<<Message("system", <<TextPart(f, "system")>>),
                   Message("user", <<TextPart(f, "user")>> \o
                        [i \in 1..Len(reads) |->
                            ValuePart(reads[i].fmt, reads[i].key,
                                      DictGet(context, reads[i].key, ""))])>>)

\* A variant of the template functions that folds the system prompt into the
\* user message and returns that message alone.
TemplateCall_user_only(f, context) ==
    LET reads == ReadKeys(f)
        m == FirstMissing(reads, context)
    IN  IF m # 0 THEN Raised("KeyError", reads[m].key)
        ELSE Returned(<<Message("user", <<TextPart(f, "system"), TextPart(f, "user")>>
                                         \o RenderValues(reads, context))>>)

\* A template function of a prompt module: a system Message of fixed text and
\* a user Message rendered from the context.
TemplateCall(f, context) ==
    LET reads == ReadKeys(f)
        m == FirstMissing(reads, context)
    IN  IF m # 0 THEN Raised("KeyError", reads[m].key)
        ELSE Returned(<<Message("system", <<TextPart(f, "system")>>),
                        Message("user", <<TextPart(f, "user")>>
                                         \o RenderValues(reads, context))>>)

\* The caller's custom_op: [system, assistant, system], new objects per call.
CustomCall(f, context) ==
    LET reads == ReadKeys(f)
        m == FirstMissing(reads, context)
    IN  IF m # 0 THEN Raised("KeyError", reads[m].key)
        ELSE Returned(<<Message("system", <<TextPart(f, "system")>>),
                        Message("assistant", <<TextPart(f, "assistant")>>
                                              \o RenderValues(reads, context)),
                        Message("system", <<TextPart(f, "system2")>>)>>)

\* The Message objects the cached function holds, as first built.
CachedMessages0 ==
    <<Message("system", <<TextPart(CachedFn, "system")>>),
      Message("user", <<TextPart(CachedFn, "user")>>)>>

\* func(context): `cached` is the current content of the Message objects the
\* cached function returns.
FuncCall(f, context, cached) ==
    CASE f.kind = "template" -> TemplateCall(f, context)
      [] f.kind = "custom" -> CustomCall(f, context)
      [] f.kind = "cached" -> Returned(cached)

\* ------------------------------------------------------------------ lib.py
\* The selector was not asked.
NoSelection == [ret |-> "", log |-> <<>>]

\* The result of one wrapped call: what it returned or raised, the function
\* it invoked (None when none was), that function's own output (raw), what
\* the selector returned and logged (sel), the log records of the wrapper,
\* the cached Message objects and the caller's context after the call.
CallResult(outcome, errkey, func, sel, raw, msgs, log, cached, context) ==
    [outcome |-> outcome, errkey |-> errkey, func |-> func, sel |-> sel,
     raw |-> raw, msgs |-> msgs, log |-> log, cached |-> cached,
     context |-> context]

\* The loop of VersionWrapper.__call__:
\*   message.content += DO_NOT_ESCAPE_UNICODE if message.role == 'system' else ''
VersionWrapper_suffix(messages) ==
    [i \in 1..Len(messages) |->
        [messages[i] EXCEPT !.content =
            @ \o (IF messages[i].role = "system" THEN <<SuffixPart>> ELSE <<>>)]]

\* VersionWrapper.__call__: self.func(context), then the suffix loop.  The
\* loop mutates the Message objects the function returned, so those of the
\* cached function keep the suffix.
VersionWrapper_call(func, context, cached) ==
    LET r == FuncCall(func, context, cached)
        out == VersionWrapper_suffix(r.msgs)
    IN  IF r.outcome # "ok"
        THEN CallResult(r.outcome, r.errkey, func, NoSelection, <<>>, <<>>, <<>>, cached,
                        context)
        ELSE CallResult("ok", "", func, NoSelection, r.msgs, out, <<>>,
                        IF func.kind = "cached" THEN out ELSE cached, context)

\* PromptTypeWrapper.__init__: one VersionWrapper attribute per version.
PromptTypeWrapper(versions) == [version \in DOMAIN versions |-> versions[version]]

\* `'a.b' in module_name`, on the components of the dotted name.
InModule(needle, module_name) ==
    \E i \in 1..Len(module_name) :
        /\ i + Len(needle) - 1 <= Len(module_name)
        /\ SubSeq(module_name, i, i + Len(needle) - 1) = needle

\* Keys of the domain_mapping local to _get_prompt_info.
PromptInfoDomainKeys == DomainMappingKeys \ {"application_resources"}

\* The if/elif chain of _get_prompt_info over module_name: the directory of
\* the prompt file, or the module name itself.
PromptFilePath(module_name) ==
    CASE InModule(<<"cloud", "aws">>, module_name) -> <<"cloud", "aws">>
      [] InModule(<<"cloud", "azure">>, module_name) -> <<"cloud", "azure">>
      [] InModule(<<"cloud", "gcp">>, module_name) -> <<"cloud", "gcp">>
      [] InModule(<<"github">>, module_name) -> <<"github">>
      [] InModule(<<"cicd">>, module_name) -> <<"cicd">>
      [] InModule(<<"observability", "logs">>, module_name) -> <<"observability", "logs">>
      [] InModule(<<"observability", "metrics">>, module_name) -> <<"observability", "metrics">>
      [] InModule(<<"observability", "traces">>, module_name) -> <<"observability", "traces">>
      [] OTHER -> module_name

NoPromptInfo ==
    [path |-> <<>>, prompt_type |-> "", mapped |-> FALSE, domain |-> "", raised |-> ""]

HasModule(func) == func.mod # NoModule

\* A variant of _get_prompt_info without the try/except: the AttributeError
\* of func.__module__ leaves the method.
get_prompt_info_no_except(prompt_type, func, source_description) ==
    IF ~HasModule(func)
    THEN [NoPromptInfo EXCEPT !.raised = "AttributeError"]
    ELSE [path |-> PromptFilePath(func.mod), prompt_type |-> prompt_type,
          mapped |-> source_description \in PromptInfoDomainKeys,
          domain |-> source_description, raised |-> ""]

\* DynamicPromptTypeWrapper._get_prompt_info: the prompt file and domain the
\* log names; "unknown prompt file (<source_description>)" when reading
\* func.__module__ raises.  `raised` names an exception that leaves the
\* method: none does.
get_prompt_info(prompt_type, func, source_description) ==
    IF ~HasModule(func)
    THEN [path |-> <<"unknown prompt file">>, prompt_type |-> "", mapped |-> FALSE,
          domain |-> source_description, raised |-> ""]
    ELSE [path |-> PromptFilePath(func.mod), prompt_type |-> prompt_type,
          mapped |-> source_description \in PromptInfoDomainKeys,
          domain |-> source_description, raised |-> ""]

\* A log record of the wrapper: the label and the prompt info it names.
WrapperLog(tag, about, info) ==
    [level |-> "info", tag |-> tag, about |-> about, info |-> info]

\* The branch condition of dynamic_wrapper: the wrapper is one of the two
\* dynamic families and the context has a source_description.
IsDynamic(prompt_type, context) ==
    /\ prompt_type \in {"extract_nodes", "extract_edges"}
    /\ "source_description" \in DOMAIN context

\* A variant of resolve_versions that resolves against the registries as they
\* were when the library was built.
resolve_versions_at_build(prompt_type, selector, context) ==
    [(IF prompt_type = "extract_nodes"
      THEN get_extract_node_prompts(PromptSelectorInit, context)
      ELSE get_extract_edge_prompts(PromptSelectorInit, context))
        EXCEPT !.self = selector]

\* versions = get_extract_node_prompts(context) / get_extract_edge_prompts(context)
\* in dynamic_wrapper, on the global prompt_selector as it is at the call.
resolve_versions(prompt_type, selector, context) ==
    IF prompt_type = "extract_nodes"
    THEN get_extract_node_prompts(selector, context)
    ELSE get_extract_edge_prompts(selector, context)

\* A variant of lookup_version without the fallback to the default versions
\* when a TemplateSet was resolved.
lookup_version_no_fallback(versions, default_versions, version) ==
    IF versions = "" THEN DictGet(default_versions, version, None)
    ELSE DictGet(Versions(versions), version, None)

\* A variant of lookup_version with a third fallback: the first operation of
\* the family.
lookup_version_third(versions, default_versions, version) ==
    LET found == IF versions = "" THEN None
                 ELSE DictGet(Versions(versions), version, None)
        dflt == DictGet(default_versions, version, None)
        first == IF "edge" \in DOMAIN default_versions THEN "edge" ELSE "extract_message"
    IN  IF found # None THEN found
        ELSE IF dflt # None THEN dflt
        ELSE default_versions[first]

\* func = versions.get(version); if None, self.default_versions.get(version).
\* `versions` is "" when no TemplateSet was resolved (the else branch).
lookup_version(versions, default_versions, version) ==
    LET found == IF versions = "" THEN None
                 ELSE DictGet(Versions(versions), version, None)
    IN  IF found # None THEN found ELSE DictGet(default_versions, version, None)

\* A variant of the loop that appends the suffix whatever the role.
dynamic_suffix_all(messages) ==
    [i \in 1..Len(messages) |->
        [messages[i] EXCEPT !.content = @ \o <<SuffixPart>>]]

\* A variant of the loop that stops after the first system message.
dynamic_suffix_first(messages) ==
    [i \in 1..Len(messages) |->
        [messages[i] EXCEPT !.content =
            @ \o (IF /\ messages[i].role = "system"
                      /\ \A j \in 1..(i - 1) : messages[j].role # "system"
                   THEN <<SuffixPart>> ELSE <<>>)]]

\* The loop of dynamic_wrapper ("the same wrapper logic as before").
dynamic_suffix(messages) ==
    [i \in 1..Len(messages) |->
        [messages[i] EXCEPT !.content =
            @ \o (IF messages[i].role = "system" THEN <<SuffixPart>> ELSE <<>>)]]

\* The closure dynamic_wrapper(context) that DynamicPromptTypeWrapper's
\* __getattr__ returns for `version`.
dynamic_wrapper(prompt_type, default_versions, version, selector, context0, cached) ==
    LET read == context_get(context0, "source_description", "default")
        source_description == read.value
        dynamic == IsDynamic(prompt_type, read.context)
        sel == IF dynamic THEN resolve_versions(prompt_type, selector, read.context)
               ELSE NoSelection
        context == IF dynamic THEN sel.context ELSE read.context
        func == lookup_version(sel.ret, default_versions, version)
        specific == dynamic /\ DictGet(Versions(sel.ret), version, None) # None
        prompt_info == IF specific
                       THEN get_prompt_info(prompt_type, func, source_description)
                       ELSE NoPromptInfo
        log == IF func = None THEN <<>>
               ELSE IF ~dynamic
                    THEN <<WrapperLog("DEFAULT_no_source_description", version, NoPromptInfo)>>
               ELSE IF ~specific
                    THEN <<WrapperLog("DEFAULT", source_description, NoPromptInfo)>>
               ELSE <<WrapperLog("DOMAIN-SPECIFIC", source_description, prompt_info)>>
        r == FuncCall(func, context, cached)
        out == dynamic_suffix(r.msgs)
    IN  IF func = None
        THEN CallResult("AttributeError", version, None, sel, <<>>, <<>>, <<>>, cached,
                        context)
        ELSE IF prompt_info.raised # ""
        THEN CallResult(prompt_info.raised, "__module__", func, sel, <<>>, <<>>, <<>>,
                        cached, context)
        ELSE IF r.outcome # "ok"
        THEN CallResult(r.outcome, r.errkey, func, sel, <<>>, <<>>, log, cached, context)
        ELSE CallResult("ok", "", func, sel, r.msgs, out, log,
                        IF func.kind = "cached" THEN out ELSE cached, context)

\* A variant of DefaultVersions that hands the AWS versions to the wrappers.
DefaultVersions_aws(prompt_type) ==
    IF prompt_type = "extract_edges" THEN EdgeVersions("aws_edge_versions")
    ELSE NodeVersions("aws_node_versions")

\* PROMPT_LIBRARY_IMPL['extract_nodes'] and ['extract_edges']: the default
\* versions PromptLibraryWrapper hands to the two dynamic wrappers.
DefaultVersions(prompt_type) ==
    IF prompt_type = "extract_edges" THEN GenericEdgeVersions
    ELSE NodeVersions("generic_node_versions")

\* ------------------------------------------------------------------- inputs
\* Keys registrations write: two initial keys that share one TemplateSet, a
\* key that is not registered initially, and the empty string.
RegKeys == {"aws_resources", "cloud_resources", "unknown_vertical_xyz", ""}

\* Keys resolved directly: the above, near misses of a registered key (another
\* case, a prefix) and a key only the node registry has.
LookupKeys == RegKeys \cup {"AWS_RESOURCES", "aws", "logs_resources"}

ContentKeys ==
    {"episode_content", "previous_episodes", "entity_types", "custom_prompt",
     "extracted_entities", "node", "nodes", "reference_time", "edge_types",
     "extracted_facts", "fact"}

ContentValue(k) ==
    CASE k = "episode_content" -> "ec2 instance i-0a1b2c3d in vpc-12345678"
      [] k = "fact" -> "pipeline deploys to production"
      [] OTHER -> k

\* A context with the content keys `keys`, and source_description sd when
\* `tagged`.
MakeContext(keys, tagged, sd) ==
    [k \in keys \cup (IF tagged THEN {"source_description"} ELSE {}) |->
        IF k = "source_description" THEN sd ELSE ContentValue(k)]

\* Contexts handed to get_extract_*_prompts: tagged with each lookup key, or
\* untagged.
SelectorContexts ==
    {MakeContext(ContentKeys, tagged, sd) : tagged \in BOOLEAN, sd \in LookupKeys}

\* Keys registrations write while wrapped operations are called: an initial
\* key, a key that is not registered initially, and the empty string.
DispatchKeys == {"aws_resources", "unknown_vertical_xyz", ""}

\* Contexts handed to wrapped operations: complete or without
\* previous_episodes; tagged with a dispatch key, or untagged.
Contexts ==
    {MakeContext(keys, tagged, sd) :
        keys \in {ContentKeys, ContentKeys \ {"previous_episodes"}},
        tagged \in BOOLEAN, sd \in DispatchKeys}

\* The operations looked up on each wrapper: its vocabulary, the operation
\* only a caller's TemplateSet has, and one that exists nowhere.
VersionNames(prompt_type) ==
    (IF prompt_type = "extract_edges" THEN EdgeOps ELSE NodeOps)
        \cup {"custom_op", "no_such_op"}

\* -------------------------------------------------------------------- state
VARIABLES
    prompt_selector,  \* the global PromptSelector: registries and defaults
    written,          \* history: per family, the set last registered per key
    held,             \* the callable a caller obtained from a wrapper
    cached,           \* the Message objects of the cached function
    res,              \* the last operation and its result
    threads           \* per thread: its operation in progress and its locals

vars == <<prompt_selector, written, held, cached, res, threads>>

NoContext == [k \in {} |-> ""]

NoCallable == [kind |-> "none", prompt_type |-> "", version |-> "", func |-> None]

\* The registration an operation directly follows, when it does.
NoRegistration == [op |-> "", key |-> "", set |-> "", old |-> ""]

Registration(r) ==
    IF r.op \in {"register_node_prompts", "register_edge_prompts"}
    THEN [op |-> r.op, key |-> r.key, set |-> r.set, old |-> r.old]
    ELSE NoRegistration

Result ==
    [op |-> "init", key |-> "", set |-> "", old |-> "", ret |-> "",
     wrapper |-> "", version |-> "", ctx |-> NoContext, ctx_out |-> NoContext,
     outcome |-> "ok",
     errkey |-> "", func |-> None, raw |-> <<>>, msgs |-> <<>>, log |-> <<>>,
     wlog |-> <<>>, after |-> NoRegistration]

\* Threads that share the global prompt_selector: two register, one resolves.
Writers == {"w1", "w2"}

Readers == {"r1"}

\* A thread that has not started its operation.
IdleThread ==
    [pc |-> "idle", fam |-> "", key |-> "", set |-> "", snap |-> NoContext,
     found |-> FALSE, ret |-> "", valid |-> {}]

Init ==
    /\ threads = [t \in Writers \cup Readers |-> IdleThread]
    /\ prompt_selector = PromptSelectorInit
    /\ written = [nodes |-> NoContext, edges |-> NoContext]
    /\ held = NoCallable
    /\ cached = CachedMessages0
    /\ res = Result

SlotsWritten == Cardinality(DOMAIN written.nodes) + Cardinality(DOMAIN written.edges)

\* prompt_selector.register_node_prompts(k, s), while fewer than max slots
\* are written or k is one of them
RegisterNode(k, s, max) ==
    /\ k \in DOMAIN written.nodes \/ SlotsWritten < max
    /\ LET r == register_node_prompts(prompt_selector, k, s)
       IN  /\ prompt_selector' = r.self
           /\ res' = [Result EXCEPT !.op = "register_node_prompts", !.key = k,
                         !.set = s, !.log = r.log,
                         !.old = DictGet(prompt_selector.node_registry, k, "absent")]
    /\ written' = [written EXCEPT !.nodes = DictSet(@, k, s)]
    /\ UNCHANGED <<held, cached, threads>>

\* prompt_selector.register_edge_prompts(k, s), under the same bound
RegisterEdge(k, s, max) ==
    /\ k \in DOMAIN written.edges \/ SlotsWritten < max
    /\ LET r == register_edge_prompts(prompt_selector, k, s)
       IN  /\ prompt_selector' = r.self
           /\ res' = [Result EXCEPT !.op = "register_edge_prompts", !.key = k,
                         !.set = s, !.log = r.log,
                         !.old = DictGet(prompt_selector.edge_registry, k, "absent")]
    /\ written' = [written EXCEPT !.edges = DictSet(@, k, s)]
    /\ UNCHANGED <<held, cached, threads>>

\* prompt_selector.get_node_prompts(k)
GetNode(k) ==
    /\ LET r == get_node_prompts(prompt_selector, k)
       IN  /\ prompt_selector' = r.self
           /\ res' = [Result EXCEPT !.op = "get_node_prompts", !.key = k,
                          !.ret = r.ret, !.log = r.log,
                          !.after = Registration(res)]
    /\ UNCHANGED <<written, held, cached, threads>>

\* prompt_selector.get_edge_prompts(k)
GetEdge(k) ==
    /\ LET r == get_edge_prompts(prompt_selector, k)
       IN  /\ prompt_selector' = r.self
           /\ res' = [Result EXCEPT !.op = "get_edge_prompts", !.key = k,
                          !.ret = r.ret, !.log = r.log,
                          !.after = Registration(res)]
    /\ UNCHANGED <<written, held, cached, threads>>

\* get_extract_node_prompts(c)
GetExtractNode(c) ==
    /\ LET r == get_extract_node_prompts(prompt_selector, c)
       IN  /\ prompt_selector' = r.self
           /\ res' = [Result EXCEPT !.op = "get_extract_node_prompts", !.ctx = c,
                          !.ctx_out = r.context,
                          !.ret = r.ret, !.log = r.log,
                          !.after = Registration(res)]
    /\ UNCHANGED <<written, held, cached, threads>>

\* get_extract_edge_prompts(c)
GetExtractEdge(c) ==
    /\ LET r == get_extract_edge_prompts(prompt_selector, c)
       IN  /\ prompt_selector' = r.self
           /\ res' = [Result EXCEPT !.op = "get_extract_edge_prompts", !.ctx = c,
                          !.ctx_out = r.context,
                          !.ret = r.ret, !.log = r.log,
                          !.after = Registration(res)]
    /\ UNCHANGED <<written, held, cached, threads>>

\* prompt_library.extract_nodes.<v> / prompt_library.extract_edges.<v>:
\* DynamicPromptTypeWrapper.__getattr__ returns a closure for any name.
GetAttrDynamic(prompt_type, v) ==
    /\ held' = [kind |-> "dynamic", prompt_type |-> prompt_type, version |-> v,
                func |-> None]
    /\ res' = [Result EXCEPT !.op = "getattr", !.wrapper = prompt_type, !.version = v]
    /\ UNCHANGED <<prompt_selector, written, cached, threads>>

\* PromptTypeWrapper(extract_nodes_versions).<v>: the VersionWrapper set in
\* __init__, or AttributeError.
GetAttrStatic(v) ==
    LET attrs == PromptTypeWrapper(DefaultVersions("extract_nodes"))
    IN  /\ IF v \in DOMAIN attrs
           THEN /\ held' = [kind |-> "static", prompt_type |-> "static",
                            version |-> v, func |-> attrs[v]]
                /\ res' = [Result EXCEPT !.op = "getattr", !.wrapper = "static",
                              !.version = v]
           ELSE /\ held' = NoCallable
                /\ res' = [Result EXCEPT !.op = "getattr", !.wrapper = "static",
                              !.version = v, !.outcome = "AttributeError",
                              !.errkey = v]
        /\ UNCHANGED <<prompt_selector, written, cached, threads>>

\* The operation r registered, in the family of the wrapper, the key the
\* context is tagged with.
RegisteredFor(r, prompt_type, c) ==
    /\ "source_description" \in DOMAIN c
    /\ r.key = c["source_description"]
    /\ \/ r.op = "register_node_prompts" /\ prompt_type = "extract_nodes"
       \/ r.op = "register_edge_prompts" /\ prompt_type = "extract_edges"

SuffixCount(messages) == Len(messages[1].content) - 1

\* held(c): the call of the callable obtained before.
Call(c) ==
    /\ held.kind # "none"
    /\ LET r == IF held.kind = "dynamic"
                THEN dynamic_wrapper(held.prompt_type, DefaultVersions(held.prompt_type),
                                     held.version, prompt_selector, c, cached)
                ELSE VersionWrapper_call(held.func, c, cached)
       IN  /\ SuffixCount(r.cached) <= MaxSuffixes
           /\ cached' = r.cached
           /\ prompt_selector' = IF "self" \in DOMAIN r.sel THEN r.sel.self
                                 ELSE prompt_selector
           /\ res' = [Result EXCEPT !.op = "call", !.wrapper = held.prompt_type,
                         !.version = held.version, !.ctx = c, !.ctx_out = r.context,
                         !.outcome = r.outcome, !.errkey = r.errkey,
                         !.func = r.func, !.ret = r.sel.ret, !.raw = r.raw,
                         !.msgs = r.msgs, !.log = r.sel.log, !.wlog = r.log,
                         !.after = IF RegisteredFor(res, held.prompt_type, c)
                                   THEN [Registration(res) EXCEPT !.old = ""]
                                   ELSE NoRegistration]
    /\ UNCHANGED <<written, held, threads>>

Register(keys, max) ==
    \/ \E k \in keys, s \in NodePool : RegisterNode(k, s, max)
    \/ \E k \in keys, s \in EdgePool : RegisterEdge(k, s, max)

\* The selector's interface: registration and resolution.
Next ==
    \/ Register(RegKeys, MaxRegs)
    \/ \E k \in LookupKeys : GetNode(k)
    \/ \E k \in LookupKeys : GetEdge(k)
    \/ \E c \in SelectorContexts : GetExtractNode(c)
    \/ \E c \in SelectorContexts : GetExtractEdge(c)

Spec == Init /\ [][Next]_vars

\* The prompt library's interface: registration, attribute lookup on a
\* wrapper, and the call of the callable obtained.
NextDispatch ==
    \/ Register(DispatchKeys, MaxDispatchRegs)
    \/ \E t \in {"extract_nodes", "extract_edges"} :
          \E v \in VersionNames(t) : GetAttrDynamic(t, v)
    \/ \E v \in VersionNames("static") : GetAttrStatic(v)
    \/ \E c \in Contexts : Call(c)

SpecDispatch == Init /\ [][NextDispatch]_vars

\* One key of each group of initial keys that share a TemplateSet object,
\* and a key that is not registered initially.
SharedSetKeys ==
    {"aws_resources", "github_resources", "cicd_resources", "metrics_resources",
     "unknown_vertical_xyz"}

\* Registrations on the keys that share TemplateSets, and the resolution of
\* every key of the domain mapping and of an unregistered key.
NextShared ==
    \/ Register(SharedSetKeys, MaxSharedRegs)
    \/ \E k \in DomainMappingKeys \cup {"unknown_vertical_xyz"} : GetNode(k)
    \/ \E k \in DomainMappingKeys \cup {"unknown_vertical_xyz"} : GetEdge(k)

SpecShared == Init /\ [][NextShared]_vars

\* ----------------------------------------------------- concurrent threads
\* The registry and the default set of a family.
RegistryIn(self, fam) ==
    IF fam = "edges" THEN self.edge_registry ELSE self.node_registry

DefaultIn(self, fam) ==
    IF fam = "edges" THEN self.default_edges ELSE self.default_nodes

\* What a key resolves to in a family.
ResolutionIn(self, fam, k) ==
    IF fam = "edges" THEN get_edge_prompts(self, k).ret ELSE get_node_prompts(self, k).ret

\* A variant of store_entry that writes a copy of the dict as it was when the
\* thread loaded it (copy, update and swap without mutual exclusion).
store_entry_from_snapshot(live, snap, k, s) == DictSet(snap, k, s)

\* self._node_registry[source_description] = prompt_versions: the item
\* assignment on the dict object the attribute load returned, which is the
\* live dict; one atomic step of the interpreter.
store_entry(live, snap, k, s) == DictSet(live, k, s)

\* Thread t starts register_*_prompts(k, s): the load of self._*_registry.
\* snap is the content of the dict at the load.
RegLoad(t, fam, k, s) ==
    /\ threads[t].pc = "idle"
    /\ threads' = [threads EXCEPT ![t] =
          [@ EXCEPT !.pc = "loaded", !.fam = fam, !.key = k, !.set = s,
                    !.snap = RegistryIn(prompt_selector, fam)]]
    /\ UNCHANGED <<prompt_selector, written, held, cached, res>>

\* Thread t executes the item assignment.  A lookup of the same key in
\* progress may from now on return s.
RegStore(t) ==
    /\ threads[t].pc = "loaded"
    /\ LET w == threads[t]
           reg == store_entry(RegistryIn(prompt_selector, w.fam), w.snap, w.key, w.set)
       IN  /\ prompt_selector' =
                 IF w.fam = "edges"
                 THEN [prompt_selector EXCEPT !.edge_registry = reg]
                 ELSE [prompt_selector EXCEPT !.node_registry = reg]
           /\ threads' = [u \in DOMAIN threads |->
                 IF u = t THEN [w EXCEPT !.pc = "stored"]
                 ELSE IF /\ u \in Readers
                         /\ threads[u].pc \in {"started", "tested"}
                         /\ threads[u].fam = w.fam /\ threads[u].key = w.key
                      THEN [threads[u] EXCEPT !.valid = @ \cup {w.set}]
                      ELSE threads[u]]
    /\ UNCHANGED <<written, held, cached, res>>

\* Thread t logs the registration and returns.
RegLog(t) ==
    /\ threads[t].pc = "stored"
    /\ threads' = [threads EXCEPT ![t] = [@ EXCEPT !.pc = "done"]]
    /\ UNCHANGED <<prompt_selector, written, held, cached, res>>

\* Thread t starts get_*_prompts(k): `if not source_description` returns the
\* default set at once.  valid collects what k resolves to from now on.
LookupStart(t, fam, k) ==
    /\ threads[t].pc = "idle"
    /\ threads' = [threads EXCEPT ![t] =
          [@ EXCEPT !.pc = IF Falsy(k) THEN "done" ELSE "started",
                    !.fam = fam, !.key = k,
                    !.ret = IF Falsy(k) THEN DefaultIn(prompt_selector, fam) ELSE "",
                    !.valid = {ResolutionIn(prompt_selector, fam, k)}]]
    /\ UNCHANGED <<prompt_selector, written, held, cached, res>>

\* `if source_description in self._*_registry`
LookupTest(t) ==
    /\ threads[t].pc = "started"
    /\ threads' = [threads EXCEPT ![t] =
          [@ EXCEPT !.pc = "tested",
                    !.found = threads[t].key \in
                                 DOMAIN RegistryIn(prompt_selector, threads[t].fam)]]
    /\ UNCHANGED <<prompt_selector, written, held, cached, res>>

\* `return self._*_registry[source_description]` or `return self._default_*`
LookupReturn(t) ==
    /\ threads[t].pc = "tested"
    /\ threads' = [threads EXCEPT ![t] =
          [@ EXCEPT !.pc = "done",
                    !.ret = IF threads[t].found
                            THEN RegistryIn(prompt_selector, threads[t].fam)[threads[t].key]
                            ELSE DefaultIn(prompt_selector, threads[t].fam)]]
    /\ UNCHANGED <<prompt_selector, written, held, cached, res>>

\* The steps of the threads, interleaved.
NextThreads ==
    \/ \E t \in Writers, k \in {"aws_resources", "unknown_vertical_xyz"},
          s \in NodePool : RegLoad(t, "nodes", k, s)
    \/ \E t \in Writers, k \in {"aws_resources", "unknown_vertical_xyz"},
          s \in EdgePool : RegLoad(t, "edges", k, s)
    \/ \E t \in Writers : RegStore(t)
    \/ \E t \in Writers : RegLog(t)
    \/ \E t \in Readers, fam \in {"nodes", "edges"}, k \in DispatchKeys :
          LookupStart(t, fam, k)
    \/ \E t \in Readers : LookupTest(t)
    \/ \E t \in Readers : LookupReturn(t)

SpecThreads == Init /\ [][NextThreads]_vars

\* The TemplateSets of the initial registries and the default node set.
InitialNodeSets ==
    {InitialNodeRegistry[k] : k \in DOMAIN InitialNodeRegistry}
        \cup {PromptSelectorInit.default_nodes}

InitialEdgeSets == {InitialEdgeRegistry[k] : k \in DOMAIN InitialEdgeRegistry}

\* versions[name](c) on a TemplateSet of the prompt modules, unwrapped.
CallTemplate(set, name, c) ==
    /\ LET f == Versions(set)[name]
           r == FuncCall(f, c, cached)
       IN  res' = [Result EXCEPT !.op = "template", !.set = set, !.version = name,
                      !.ctx = c, !.ctx_out = c, !.func = f,
                      !.outcome = r.outcome, !.errkey = r.errkey,
                      !.raw = r.msgs, !.msgs = r.msgs]
    /\ UNCHANGED <<prompt_selector, written, held, cached, threads>>

\* --------------------------------------------------- ExtractedEntity schema
\* A value of the response data, with its Python type.
Value(t, v) == [t |-> t, v |-> v]

\* The entity_type_id integers of the entity types given to the prompt.
EntityTypeIds == {0, 1, 2}

\* Response data for one entity: a name, and an entity_type_id that is an id
\* of the list, another integer, None, or absent.
EntityData ==
    LET names == {Value("str", "payments-api")}
        ids == {Value("int", i) : i \in EntityTypeIds \cup {7}}
                  \cup {Value("NoneType", 0)}
    IN  {[name |-> n, entity_type_id |-> i] : n \in names, i \in ids}
           \cup {[name |-> n] : n \in names}
           \cup {[entity_type_id |-> i] : i \in ids}

\* ExtractedEntity(**data): both fields are required (neither has a default),
\* name must be a str and entity_type_id an int; the first field that fails
\* is reported.  The provided type list is not part of the schema.
ExtractedEntity(data) ==
    LET bad(field, t) == field \notin DOMAIN data \/ data[field].t # t
    IN  IF bad("name", "str") THEN Raised("ValidationError", "name")
        ELSE IF bad("entity_type_id", "int") THEN Raised("ValidationError", "entity_type_id")
        ELSE Returned(<<>>)

\* The response data of one entity is validated against the schema.
ValidateEntity(data) ==
    /\ LET r == ExtractedEntity(data)
       IN  res' = [Result EXCEPT !.op = "ExtractedEntity", !.ctx = data,
                      !.ctx_out = IF r.outcome = "ok" THEN data ELSE NoContext,
                      !.outcome = r.outcome, !.errkey = r.errkey]
    /\ UNCHANGED <<prompt_selector, written, held, cached, threads>>

\* Facts handed to edge attribute extraction: a sentence, and the text of a
\* structured fact with fields of several types.
FactValues ==
    {"pipeline deploys to production",
     "{'fact': 'ec2 i-0a1b2c3d runs in vpc-12345678', 'valid_at': None, 'replicas': 3}"}

FactContexts ==
    {[MakeContext(ContentKeys, FALSE, "") EXCEPT !["fact"] = v] : v \in FactValues}

\* The template functions themselves, on every initial TemplateSet.
NextTemplates ==
    \/ \E set \in InitialNodeSets, name \in NodeOps, c \in Contexts :
          CallTemplate(set, name, c)
    \/ \E set \in InitialEdgeSets, name \in EdgeOps, c \in Contexts :
          CallTemplate(set, name, c)
    \/ \E set \in InitialEdgeSets, c \in FactContexts :
          CallTemplate(set, "extract_attributes", c)
    \/ \E data \in EntityData : ValidateEntity(data)

SpecTemplates == Init /\ [][NextTemplates]_vars

\* ------------------------------------------------------------- properties
NodeRegistry == prompt_selector.node_registry

EdgeRegistry == prompt_selector.edge_registry

Tagged(c) == "source_description" \in DOMAIN c

\* The key a selector operation was asked to resolve, and whether it had one.
Asked(r) ==
    IF r.op \in {"get_node_prompts", "get_edge_prompts"} THEN r.key
    ELSE IF Tagged(r.ctx) THEN r.ctx["source_description"] ELSE ""

HasKey(r) ==
    \/ r.op \in {"get_node_prompts", "get_edge_prompts"}
    \/ r.op \in {"get_extract_node_prompts", "get_extract_edge_prompts"} /\ Tagged(r.ctx)

NodeResolution(r) == r.op \in {"get_node_prompts", "get_extract_node_prompts"}

EdgeResolution(r) == r.op \in {"get_edge_prompts", "get_extract_edge_prompts"}

\* C1 (as stated): resolving any key present in the node (edge) registry,
\* directly or through get_extract_*_prompts, returns the TemplateSet object
\* stored under that key.
C1_AsStated ==
    /\ (NodeResolution(res) /\ HasKey(res) /\ Asked(res) \in DOMAIN NodeRegistry)
          => res.ret = NodeRegistry[Asked(res)]
    /\ (EdgeResolution(res) /\ HasKey(res) /\ Asked(res) \in DOMAIN EdgeRegistry)
          => res.ret = EdgeRegistry[Asked(res)]

\* C1 (amended): resolving any non-empty key present in the node (edge)
\* registry returns the TemplateSet object stored under that key: the same
\* object, not the default and not another object of equal content.
C1_RegisteredKeyResolvesToStoredSet ==
    /\ (NodeResolution(res) /\ HasKey(res) /\ Asked(res) # ""
            /\ Asked(res) \in DOMAIN NodeRegistry)
          => res.ret = NodeRegistry[Asked(res)]
    /\ (EdgeResolution(res) /\ HasKey(res) /\ Asked(res) # ""
            /\ Asked(res) \in DOMAIN EdgeRegistry)
          => res.ret = EdgeRegistry[Asked(res)]

\* C1 witness: after a registration of a copy of the AWS set under
\* cloud_resources, the edge resolution of cloud_resources returns the copy,
\* which has the content of the AWS set but is another object.
C1_Witness ==
    /\ res.op = "get_extract_edge_prompts"
    /\ Tagged(res.ctx) /\ res.ctx["source_description"] = "cloud_resources"
    /\ "cloud_resources" \in DOMAIN written.edges
    /\ res.ret = "custom_edge_versions"
    /\ Versions(res.ret) = Versions("aws_edge_versions")

\* C2: resolving an absent or empty source_description, or one that equals no
\* key of the registry (a key in another case or a prefix of a key included),
\* succeeds and returns the default TemplateSet of the family, the same object
\* as at construction.
C2_UnknownKeyResolvesToDefault ==
    /\ (NodeResolution(res)
            /\ (~HasKey(res) \/ Asked(res) = "" \/ Asked(res) \notin DOMAIN NodeRegistry))
          => /\ res.outcome = "ok"
             /\ res.ret = "generic_node_versions"
             /\ res.ret = prompt_selector.default_nodes
    /\ (EdgeResolution(res)
            /\ (~HasKey(res) \/ Asked(res) = "" \/ Asked(res) \notin DOMAIN EdgeRegistry))
          => /\ res.outcome = "ok"
             /\ res.ret = "generic_edge_versions"
             /\ res.ret = prompt_selector.default_edges

\* C2 witness: with registrations made, a key that differs from a registered
\* key only in case resolved to the default node set.
C2_Witness ==
    /\ res.op = "get_node_prompts"
    /\ res.key = "AWS_RESOURCES"
    /\ "aws_resources" \in DOMAIN written.nodes
    /\ res.ret = "generic_node_versions"

\* C3 (as stated): a resolution of key k that directly follows
\* register_node_prompts(k, S) (register_edge_prompts) returns S.
C3_AsStated ==
    /\ (res.op = "get_node_prompts" /\ res.after.op = "register_node_prompts"
            /\ res.after.key = res.key)
          => res.ret = res.after.set
    /\ (res.op = "get_edge_prompts" /\ res.after.op = "register_edge_prompts"
            /\ res.after.key = res.key)
          => res.ret = res.after.set

\* C3 (amended): a resolution of a non-empty key k that directly follows
\* register_node_prompts(k, S) (register_edge_prompts) returns S, also when k
\* resolved to the default set before.
C3_RegisterThenResolve ==
    /\ (res.op = "get_node_prompts" /\ res.after.op = "register_node_prompts"
            /\ res.after.key = res.key /\ res.key # "")
          => res.ret = res.after.set
    /\ (res.op = "get_edge_prompts" /\ res.after.op = "register_edge_prompts"
            /\ res.after.key = res.key /\ res.key # "")
          => res.ret = res.after.set

\* C3 witness: a key that was absent from the node registry is registered and
\* resolved right after, and the registered set is returned.
C3_Witness ==
    /\ res.op = "get_node_prompts"
    /\ res.key = "unknown_vertical_xyz"
    /\ res.after.op = "register_node_prompts"
    /\ res.after.key = res.key
    /\ res.after.old = "absent"
    /\ res.ret = res.after.set

\* C4 (as stated): a registration never fails and stores its set under the
\* key, and resolving a key returns the set last registered under it.
C4_AsStated ==
    /\ res.op = "register_node_prompts"
          => res.outcome = "ok" /\ NodeRegistry[res.key] = res.set
    /\ res.op = "register_edge_prompts"
          => res.outcome = "ok" /\ EdgeRegistry[res.key] = res.set
    /\ (res.op = "get_node_prompts" /\ res.key \in DOMAIN written.nodes)
          => res.ret = written.nodes[res.key]
    /\ (res.op = "get_edge_prompts" /\ res.key \in DOMAIN written.edges)
          => res.ret = written.edges[res.key]

\* C4 (amended): a registration never fails and stores its set under the key,
\* replacing what was there; resolving a non-empty key returns the set last
\* registered under it, whatever was registered under other keys since.
C4_LastWriteWins ==
    /\ res.op = "register_node_prompts"
          => res.outcome = "ok" /\ NodeRegistry[res.key] = res.set
    /\ res.op = "register_edge_prompts"
          => res.outcome = "ok" /\ EdgeRegistry[res.key] = res.set
    /\ (res.op = "get_node_prompts" /\ res.key \in DOMAIN written.nodes /\ res.key # "")
          => res.ret = written.nodes[res.key]
    /\ (res.op = "get_edge_prompts" /\ res.key \in DOMAIN written.edges /\ res.key # "")
          => res.ret = written.edges[res.key]

\* C4 witness: a key registered at run time with one set is registered again
\* with another, and the resolution that follows returns the second set.
C4_Witness ==
    /\ res.op = "get_node_prompts"
    /\ res.after.op = "register_node_prompts"
    /\ res.after.key = res.key
    /\ res.after.old \in NodePool \ {res.after.set}
    /\ res.ret = res.after.set
    /\ res.ret # res.after.old

\* ------------------------------------------------- properties of the wrappers
DynamicFamilies == {"extract_nodes", "extract_edges"}

\* The registry the dynamic wrapper of a family resolves in.
RegistryOf(prompt_type) ==
    IF prompt_type = "extract_edges" THEN EdgeRegistry ELSE NodeRegistry

\* The TemplateSet the registries hold for the context of a call: the set
\* under its source_description, the default set of the family otherwise.
DefaultSetOf(prompt_type) ==
    IF prompt_type = "extract_edges" THEN prompt_selector.default_edges
    ELSE prompt_selector.default_nodes

ResolvedFor(prompt_type, c) ==
    IF /\ Tagged(c)
       /\ c["source_description"] # ""
       /\ c["source_description"] \in DOMAIN RegistryOf(prompt_type)
    THEN RegistryOf(prompt_type)[c["source_description"]]
    ELSE DefaultSetOf(prompt_type)

EndsWithSuffix(content) == Len(content) > 0 /\ content[Len(content)] = SuffixPart

\* The context keys a function reads that a context lacks.
MissingKeys(f, c) ==
    {ReadKeys(f)[i].key : i \in 1..Len(ReadKeys(f))} \ DOMAIN c

\* C5: a wrapped call that succeeds, through the static VersionWrapper or the
\* dynamic wrapper, returns the messages of the function it invoked, in the
\* same number, order and roles; the content of each system message is the
\* function's content followed by DO_NOT_ESCAPE_UNICODE, the content of every
\* other message is the function's content unchanged.  The call succeeds
\* whenever the function invoked finds its keys in the context.
C5_SuffixOnSystemMessagesOnly ==
    /\ (res.op = "call" /\ res.outcome = "ok")
          => /\ res.func # None
             /\ res.func.kind # "cached" => res.raw = FuncCall(res.func, res.ctx, <<>>).msgs
             /\ Len(res.msgs) = Len(res.raw)
             /\ \A i \in 1..Len(res.raw) :
                   /\ res.msgs[i].role = res.raw[i].role
                   /\ res.raw[i].role = "system"
                         => res.msgs[i].content = res.raw[i].content \o <<SuffixPart>>
                   /\ res.raw[i].role # "system"
                         => res.msgs[i].content = res.raw[i].content
    /\ (res.op = "call" /\ res.func # None /\ MissingKeys(res.func, res.ctx) = {})
          => res.outcome = "ok"

\* C5 witness: the dynamic wrapper returned the three messages of a caller's
\* operation, the two system messages suffixed and the assistant message as
\* the function built it.
C5_Witness ==
    /\ res.op = "call" /\ res.outcome = "ok"
    /\ res.wrapper = "extract_nodes"
    /\ res.func = CustomFn
    /\ Len(res.msgs) = 3
    /\ res.msgs[2].role = "assistant"
    /\ res.msgs[2].content = res.raw[2].content
    /\ res.msgs[3].content = <<TextPart(CustomFn, "system2"), SuffixPart>>

\* C6 (as stated): a dynamic call tagged with a key of the family's registry
\* resolves the TemplateSet stored under that key at the call and invokes its
\* operation, also when the key was registered right before the call, after
\* the callable was obtained.
C6_AsStated ==
    /\ (res.op = "call" /\ res.wrapper \in DynamicFamilies /\ Tagged(res.ctx)
            /\ res.ctx["source_description"] \in DOMAIN RegistryOf(res.wrapper))
          => LET S == RegistryOf(res.wrapper)[res.ctx["source_description"]]
             IN  /\ res.ret = S
                 /\ res.version \in DOMAIN Versions(S) => res.func = Versions(S)[res.version]
    /\ (res.op = "call" /\ res.after.op # "")
          => /\ res.ret = res.after.set
             /\ res.version \in DOMAIN Versions(res.after.set)
                   => res.func = Versions(res.after.set)[res.version]

\* C6 (amended): a dynamic call tagged with a non-empty key of the family's
\* registry resolves the TemplateSet stored under that key at the call and
\* invokes its operation, also when the key was registered right before the
\* call, after the callable was obtained.
C6_ResolvedAtEachCall ==
    /\ (res.op = "call" /\ res.wrapper \in DynamicFamilies /\ Tagged(res.ctx)
            /\ res.ctx["source_description"] # ""
            /\ res.ctx["source_description"] \in DOMAIN RegistryOf(res.wrapper))
          => LET S == RegistryOf(res.wrapper)[res.ctx["source_description"]]
             IN  /\ res.ret = S
                 /\ res.version \in DOMAIN Versions(S) => res.func = Versions(S)[res.version]
    /\ (res.op = "call" /\ res.after.op # "" /\ res.after.key # "")
          => /\ res.ret = res.after.set
             /\ res.version \in DOMAIN Versions(res.after.set)
                   => res.func = Versions(res.after.set)[res.version]

\* C6 witness: a callable was obtained, then a key that was absent from the
\* node registry was registered with a caller's set, and the call that
\* followed invoked the operation only that set has.
C6_Witness ==
    /\ res.op = "call" /\ res.outcome = "ok"
    /\ res.wrapper = "extract_nodes"
    /\ res.after.op = "register_node_prompts"
    /\ res.after.key = "unknown_vertical_xyz"
    /\ res.after.set = "partial_node_versions"
    /\ res.version = "custom_op"
    /\ res.func = CustomFn

\* C7: when the TemplateSet the registries hold for the context of a dynamic
\* call lacks the operation and the default set of the family has it, the
\* call invokes the default set's operation of that name: it raises no
\* AttributeError and, the context having the keys that operation reads,
\* returns that operation's messages with the system message suffixed.
C7_FallbackToDefaultOperation ==
    (/\ res.op = "call" /\ res.wrapper \in DynamicFamilies
     /\ res.version \notin DOMAIN Versions(ResolvedFor(res.wrapper, res.ctx))
     /\ res.version \in DOMAIN DefaultVersions(res.wrapper))
       => LET f == DefaultVersions(res.wrapper)[res.version]
          IN  /\ res.func = f
              /\ res.outcome # "AttributeError"
              /\ MissingKeys(f, res.ctx) = {} => res.outcome = "ok"
              /\ res.outcome = "ok"
                    => /\ res.raw = TemplateCall(f, res.ctx).msgs
                       /\ Len(res.msgs) = 2
                       /\ res.msgs[1] = Message("system", <<TextPart(f, "system"), SuffixPart>>)
                       /\ res.msgs[2] = res.raw[2]

\* C7 witness: the context is tagged with a key registered with a set that
\* has no reflexion, and the call of reflexion returned the messages of the
\* generic reflexion.
C7_Witness ==
    /\ res.op = "call" /\ res.outcome = "ok"
    /\ res.wrapper = "extract_nodes"
    /\ res.version = "reflexion"
    /\ res.ret = "partial_node_versions"
    /\ res.func = TemplateFn("nodes", "generic_node_versions", "reflexion")
    /\ EndsWithSuffix(res.msgs[1].content)

\* C8: a dynamic call of an operation that neither the TemplateSet the
\* registries hold for the context nor the default set of the family has
\* raises AttributeError naming the operation: no function is invoked and no
\* messages are returned.
C8_UnknownOperationIsFatal ==
    (/\ res.op = "call" /\ res.wrapper \in DynamicFamilies
     /\ res.version \notin DOMAIN Versions(ResolvedFor(res.wrapper, res.ctx))
     /\ res.version \notin DOMAIN DefaultVersions(res.wrapper))
       => /\ res.outcome = "AttributeError"
          /\ res.errkey = res.version
          /\ res.func = None
          /\ res.raw = <<>>
          /\ res.msgs = <<>>

\* C8 witness: with a caller's set registered under another key, the call of
\* custom_op tagged aws_resources found the operation neither in the AWS set
\* nor in the generic set and raised AttributeError.
C8_Witness ==
    /\ res.op = "call"
    /\ res.wrapper = "extract_nodes"
    /\ res.version = "custom_op"
    /\ res.ret = "aws_node_versions"
    /\ "partial_node_versions" \in {NodeRegistry[k] : k \in DOMAIN NodeRegistry}
    /\ res.outcome = "AttributeError"
    /\ res.func = None

\* C9: a wrapped call whose selected function reads a key the context lacks
\* raises KeyError for a missing key (the first one read), returns no
\* messages, and leaves the selector (both registries and the defaults) as it
\* was.
C9_MissingContextKeyRaises ==
    [][(/\ res'.op = "call"
        /\ res'.func # None
        /\ MissingKeys(res'.func, res'.ctx) # {})
          => /\ res'.outcome = "KeyError"
             /\ res'.errkey \in MissingKeys(res'.func, res'.ctx)
             /\ res'.errkey = ReadKeys(res'.func)[FirstMissing(ReadKeys(res'.func), res'.ctx)].key
             /\ res'.raw = <<>>
             /\ res'.msgs = <<>>
             /\ prompt_selector' = prompt_selector]_vars

\* C9 witness: the AWS edge operation, selected for a context tagged
\* aws_resources that has no previous_episodes, raised KeyError for that key.
C9_Witness ==
    /\ res.op = "call"
    /\ res.wrapper = "extract_edges"
    /\ res.version = "edge"
    /\ res.ret = "aws_edge_versions"
    /\ "previous_episodes" \notin DOMAIN res.ctx
    /\ res.outcome = "KeyError"
    /\ res.errkey = "previous_episodes"
    /\ res.msgs = <<>>

SuffixCopies(content) ==
    Cardinality({j \in 1..Len(content) : content[j] = SuffixPart})

\* C11: a successful call of a wrapped operation that directly follows a
\* successful call of the same operation with the same context (no
\* registration and no other operation in between) returns the same messages,
\* and each system message of either call ends with exactly one copy of the
\* suffix.
C11_RenderingIsIdempotent ==
    [][(/\ res.op = "call" /\ res.outcome = "ok"
        /\ res'.op = "call" /\ res'.ctx = res.ctx
        /\ res'.wrapper = res.wrapper /\ res'.version = res.version)
          => /\ res'.outcome = "ok"
             /\ res'.msgs = res.msgs
             /\ \A i \in 1..Len(res'.msgs) :
                   res'.msgs[i].role = "system"
                      => /\ EndsWithSuffix(res'.msgs[i].content)
                         /\ SuffixCopies(res'.msgs[i].content) = 1]_vars

\* C12: after get_extract_node_prompts, get_extract_edge_prompts or a wrapped
\* call, whether it returned or raised, the caller's context has the keys and
\* values it had before.
C12_ContextIsNotMutated ==
    res.op \in {"get_extract_node_prompts", "get_extract_edge_prompts", "call"}
       => /\ DOMAIN res.ctx_out = DOMAIN res.ctx
          /\ \A k \in DOMAIN res.ctx : res.ctx_out[k] = res.ctx[k]

\* C12 witness: a dynamic call with a context that has no source_description
\* raised, and the context still has no source_description.
C12_Witness ==
    /\ res.op = "call"
    /\ res.wrapper = "extract_nodes"
    /\ res.outcome = "KeyError"
    /\ ~Tagged(res.ctx)
    /\ ~Tagged(res.ctx_out)
    /\ res.ctx_out = res.ctx

\* C13: every operation of every TemplateSet of the initial registries and of
\* the default node set, when it succeeds, returns exactly a system message
\* followed by a user message, neither with empty content.
C13_SystemThenUserMessage ==
    (res.op = "template" /\ res.outcome = "ok")
       => /\ res.msgs # <<>>
          /\ Len(res.msgs) = 2
          /\ res.msgs[1].role = "system"
          /\ res.msgs[2].role = "user"
          /\ res.msgs[1].content # <<>>
          /\ res.msgs[2].content # <<>>

\* C13 witness: reflexion of the traces node set returned a system message
\* and a user message.
C13_Witness ==
    /\ res.op = "template" /\ res.outcome = "ok"
    /\ res.set = "traces_node_versions"
    /\ res.version = "reflexion"
    /\ res.func.mod = ModuleOf("traces_node_versions")
    /\ Len(res.msgs) = 2
    /\ res.msgs[1].role = "system" /\ res.msgs[2].role = "user"

\* A TemplateSet defines the whole vocabulary of its family.
CompleteNodeSet(set) == NodeOps \subseteq DOMAIN Versions(set)

CompleteEdgeSet(set) == EdgeOps \subseteq DOMAIN Versions(set)

\* C14 (as stated): in every reachable state every TemplateSet of the node
\* registry defines the six node operations and every TemplateSet of the
\* edge registry the three edge operations.
C14_AsStated ==
    /\ \A k \in DOMAIN NodeRegistry : CompleteNodeSet(NodeRegistry[k])
    /\ \A k \in DOMAIN EdgeRegistry : CompleteEdgeSet(EdgeRegistry[k])

\* C14 (amended): in every reachable state every TemplateSet of the node
\* (edge) registry that no registration put there defines the six node (three
\* edge) operations; an entry a registration wrote holds the registered set
\* as it is, complete or not.
C14_InitialEntriesAreComplete ==
    /\ \A k \in DOMAIN NodeRegistry :
          IF k \in DOMAIN written.nodes
          THEN NodeRegistry[k] = written.nodes[k]
          ELSE /\ NodeRegistry[k] = InitialNodeRegistry[k]
               /\ CompleteNodeSet(NodeRegistry[k])
    /\ \A k \in DOMAIN EdgeRegistry :
          IF k \in DOMAIN written.edges
          THEN EdgeRegistry[k] = written.edges[k]
          ELSE /\ EdgeRegistry[k] = InitialEdgeRegistry[k]
               /\ CompleteEdgeSet(EdgeRegistry[k])

\* C14 witness: a set without most node operations is registered under one
\* key next to the entries of the other keys, which are complete.
C14_Witness ==
    /\ "cloud_resources" \in DOMAIN written.nodes
    /\ NodeRegistry["cloud_resources"] = "partial_node_versions"
    /\ ~CompleteNodeSet(NodeRegistry["cloud_resources"])
    /\ "aws_resources" \notin DOMAIN written.nodes
    /\ CompleteNodeSet(NodeRegistry["aws_resources"])

\* The operations of the vocabulary of a dynamic family.
Vocabulary(prompt_type) == IF prompt_type = "extract_edges" THEN EdgeOps ELSE NodeOps

\* C15: a dynamic call of a node or edge operation with a context that has
\* every content key the selected template reads returns a non-empty message
\* list, whether the context's source_description is a registered key, an
\* unregistered key, empty or absent.
C15_UsablePromptWhateverTheTag ==
    (/\ res.op = "call" /\ res.wrapper \in DynamicFamilies
     /\ res.version \in Vocabulary(res.wrapper)
     /\ res.func # None
     /\ MissingKeys(res.func, res.ctx) \subseteq {"source_description"})
       => /\ res.outcome = "ok"
          /\ res.msgs # <<>>

\* C16: until a registration writes cloud_resources, cloud_resources resolves
\* in the node and in the edge family to the AWS set, the object that
\* aws_resources resolves to, not to the default set; once a registration
\* writes cloud_resources it resolves to the registered set, and
\* aws_resources, not written itself, keeps resolving to the AWS set.
C16_CloudAliasIsAnOrdinaryEntry ==
    /\ (NodeResolution(res) /\ HasKey(res) /\ Asked(res) = "cloud_resources")
          => IF "cloud_resources" \in DOMAIN written.nodes
             THEN res.ret = written.nodes["cloud_resources"]
             ELSE /\ res.ret = "aws_node_versions"
                  /\ res.ret = InitialNodeRegistry["aws_resources"]
                  /\ res.ret # prompt_selector.default_nodes
    /\ (EdgeResolution(res) /\ HasKey(res) /\ Asked(res) = "cloud_resources")
          => IF "cloud_resources" \in DOMAIN written.edges
             THEN res.ret = written.edges["cloud_resources"]
             ELSE /\ res.ret = "aws_edge_versions"
                  /\ res.ret = InitialEdgeRegistry["aws_resources"]
                  /\ res.ret # prompt_selector.default_edges
    /\ (NodeResolution(res) /\ HasKey(res) /\ Asked(res) = "aws_resources"
            /\ "aws_resources" \notin DOMAIN written.nodes)
          => res.ret = "aws_node_versions"
    /\ (EdgeResolution(res) /\ HasKey(res) /\ Asked(res) = "aws_resources"
            /\ "aws_resources" \notin DOMAIN written.edges)
          => res.ret = "aws_edge_versions"

\* C16 witness: another set was registered under cloud_resources in the edge
\* family, the edge registry holds it there, and aws_resources resolved to the
\* AWS edge set.
C16_Witness ==
    /\ res.op = "get_edge_prompts"
    /\ res.key = "aws_resources"
    /\ "cloud_resources" \in DOMAIN written.edges
    /\ EdgeRegistry["cloud_resources"] \in EdgePool
    /\ "aws_resources" \notin DOMAIN written.edges
    /\ res.ret = "aws_edge_versions"

\* C17: with the registries as constructed, resolving a recognized key (one
\* validate_source_description accepts, a key of the selector's domain
\* mapping) returns, in the node family and in the edge family, the
\* TemplateSet registered under it and not the default set.
C17_RecognizedKeysAreRegistered ==
    /\ (NodeResolution(res) /\ HasKey(res) /\ NodeRegistry = InitialNodeRegistry
            /\ validate_source_description(Asked(res)))
          => /\ HasDomainName(Asked(res))
             /\ Asked(res) \in DOMAIN NodeRegistry
             /\ res.ret = NodeRegistry[Asked(res)]
             /\ res.ret # prompt_selector.default_nodes
    /\ (EdgeResolution(res) /\ HasKey(res) /\ EdgeRegistry = InitialEdgeRegistry
            /\ validate_source_description(Asked(res)))
          => /\ HasDomainName(Asked(res))
             /\ Asked(res) \in DOMAIN EdgeRegistry
             /\ res.ret = EdgeRegistry[Asked(res)]
             /\ res.ret # prompt_selector.default_edges

\* C18: register_node_prompts changes no entry of the edge registry and
\* neither default set, so get_edge_prompts returns for every key what it
\* returned before; register_edge_prompts changes no entry of the node
\* registry and neither default set, so get_node_prompts returns for every
\* key what it returned before.
C18_FamiliesAreIndependent ==
    [][/\ res'.op = "register_node_prompts"
             => /\ prompt_selector'.edge_registry = prompt_selector.edge_registry
                /\ prompt_selector'.default_edges = prompt_selector.default_edges
                /\ prompt_selector'.default_nodes = prompt_selector.default_nodes
                /\ \A k \in LookupKeys :
                      get_edge_prompts(prompt_selector', k).ret
                         = get_edge_prompts(prompt_selector, k).ret
       /\ res'.op = "register_edge_prompts"
             => /\ prompt_selector'.node_registry = prompt_selector.node_registry
                /\ prompt_selector'.default_nodes = prompt_selector.default_nodes
                /\ prompt_selector'.default_edges = prompt_selector.default_edges
                /\ \A k \in LookupKeys :
                      get_node_prompts(prompt_selector', k).ret
                         = get_node_prompts(prompt_selector, k).ret]_vars

\* C18 witness: right after register_node_prompts replaced the node entry of
\* aws_resources, get_edge_prompts of the same key returned the AWS edge set.
C18_Witness ==
    /\ res.op = "get_edge_prompts"
    /\ res.key = "aws_resources"
    /\ res.after.op = "register_node_prompts"
    /\ res.after.key = res.key
    /\ NodeRegistry[res.key] = res.after.set
    /\ res.after.set \in NodePool
    /\ res.ret = "aws_edge_versions"

\* The operation logged a record at warning level.
Warned(r) == \E i \in 1..Len(r.log) : r.log[i].level = "warning"

\* C19: a resolution logs a warning exactly when its source_description is
\* non-empty and not a key of the registry of the family; the warning names
\* the source_description and the default set is returned.  A registry hit
\* and an absent or empty source_description log no warning.
C19_WarningExactlyOnFallback ==
    /\ NodeResolution(res)
          => /\ Warned(res) <=> (/\ HasKey(res) /\ Asked(res) # ""
                                 /\ Asked(res) \notin DOMAIN NodeRegistry)
             /\ Warned(res)
                   => /\ res.ret = prompt_selector.default_nodes
                      /\ res.log = <<LogRecord("warning", "fallback", Asked(res))>>
    /\ EdgeResolution(res)
          => /\ Warned(res) <=> (/\ HasKey(res) /\ Asked(res) # ""
                                 /\ Asked(res) \notin DOMAIN EdgeRegistry)
             /\ Warned(res)
                   => /\ res.ret = prompt_selector.default_edges
                      /\ res.log = <<LogRecord("warning", "fallback", Asked(res))>>

\* C19 witness: the edge resolution of a context tagged unknown_vertical_xyz,
\* a key the edge registry does not have, returned the default edge set and
\* logged a warning.
C19_Witness ==
    /\ res.op = "get_extract_edge_prompts"
    /\ Tagged(res.ctx) /\ res.ctx["source_description"] = "unknown_vertical_xyz"
    /\ "unknown_vertical_xyz" \notin DOMAIN EdgeRegistry
    /\ res.ret = "generic_edge_versions"
    /\ Warned(res)

\* C20: what a wrapped call returns or raises is decided by the function it
\* invoked and the context alone, whichever log record the wrapper built: it
\* returns that function's messages when the context has the keys the
\* function reads and raises KeyError for a missing key otherwise.  For a
\* function without module information _get_prompt_info yields "unknown
\* prompt file", the record is logged, and no error of the log text reaches
\* the caller.
C20_LoggingNeverAffectsTheResult ==
    (res.op = "call" /\ res.func # None)
       => /\ res.outcome \in {"ok", "KeyError"}
          /\ res.outcome = "ok" <=> MissingKeys(res.func, res.ctx) = {}
          /\ res.outcome = "KeyError" => res.errkey \in MissingKeys(res.func, res.ctx)
          /\ (res.outcome = "ok" /\ res.func.kind # "cached")
                => res.raw = FuncCall(res.func, res.ctx, <<>>).msgs
          /\ res.outcome = "ok" => Len(res.msgs) = Len(res.raw)
          /\ (res.wrapper \in DynamicFamilies /\ ~HasModule(res.func))
                => /\ Len(res.wlog) = 1
                   /\ res.wlog[1].tag = "DOMAIN-SPECIFIC"
                   /\ res.wlog[1].info.path = <<"unknown prompt file">>
                   /\ res.wlog[1].info.domain = res.ctx["source_description"]

\* C20 witness: the dynamic edge wrapper invoked a registered callable that
\* has no module information, logged "unknown prompt file" for it and
\* returned its messages.
C20_Witness ==
    /\ res.op = "call" /\ res.outcome = "ok"
    /\ res.wrapper = "extract_edges"
    /\ res.func = BareFn
    /\ ~HasModule(res.func)
    /\ res.wlog # <<>>
    /\ res.wlog[1].info.path = <<"unknown prompt file">>
    /\ res.msgs # <<>>

\* The sets that writers have stored under a key of a family.
StoredUnder(fam, k) ==
    {threads[w].set : w \in {u \in Writers : /\ threads[u].pc \in {"stored", "done"}
                                             /\ threads[u].fam = fam
                                             /\ threads[u].key = k}}

\* C21: with registrations and a lookup interleaved at the steps of the
\* interpreter, no registration is lost (a key that writers have stored to
\* holds one of the sets stored to it, the only one when one writer stored
\* to it), a finished lookup has returned what its key resolved to when it
\* started or a set stored under its key while it ran, and a lookup in
\* progress can always take its next step.
C21_RegistrationsAreNotLost ==
    /\ \A w \in Writers :
          threads[w].pc \in {"stored", "done"}
             => /\ threads[w].key \in DOMAIN RegistryIn(prompt_selector, threads[w].fam)
                /\ RegistryIn(prompt_selector, threads[w].fam)[threads[w].key]
                      \in StoredUnder(threads[w].fam, threads[w].key)
    /\ \A r \in Readers :
          /\ threads[r].pc = "done" => threads[r].ret \in threads[r].valid
          /\ threads[r].pc = "started" => ENABLED LookupTest(r)
          /\ threads[r].pc = "tested" => ENABLED LookupReturn(r)

\* C21 witness: both writers have registered, to different keys of the node
\* family, both entries are in the registry, and the reader returned the set
\* stored under its key while its lookup ran.
C21_Witness ==
    /\ \A t \in Writers \cup Readers : threads[t].pc = "done"
    /\ threads["w1"].fam = "nodes" /\ threads["w2"].fam = "nodes"
    /\ threads["w1"].key = "aws_resources"
    /\ threads["w2"].key = "unknown_vertical_xyz"
    /\ NodeRegistry["aws_resources"] = threads["w1"].set
    /\ NodeRegistry["unknown_vertical_xyz"] = threads["w2"].set
    /\ threads["r1"].fam = "nodes" /\ threads["r1"].key = "unknown_vertical_xyz"
    /\ threads["r1"].valid = {"generic_node_versions", threads["w2"].set}
    /\ threads["r1"].ret = threads["w2"].set

\* A dynamic node-extraction call of extract_message with an aws_resources
\* context, while no registration has written that key.
AwsExtractMessageCall ==
    /\ res.op = "call" /\ res.wrapper = "extract_nodes"
    /\ res.version = "extract_message"
    /\ Tagged(res.ctx) /\ res.ctx["source_description"] = "aws_resources"
    /\ "aws_resources" \notin DOMAIN written.nodes

\* C22: a context tagged aws_resources resolves in the node family to the
\* AWS TemplateSet, which is not the generic default set, and the system
\* prompt of its extract_message contains 'AWS infrastructure entities' while
\* the generic one does not.
C22_AwsContextGetsAwsPrompt ==
    AwsExtractMessageCall =>
       /\ res.ret = "aws_node_versions"
       /\ res.ret # prompt_selector.default_nodes
       /\ res.func = TemplateFn("nodes", "aws_node_versions", "extract_message")
       /\ res.func # TemplateFn("nodes", prompt_selector.default_nodes, "extract_message")
       /\ ContentContains(<<TextPart(res.func, "system")>>,
                          <<"AWS", "infrastructure", "entities">>)
       /\ ~ContentContains(
              <<TextPart(TemplateFn("nodes", prompt_selector.default_nodes,
                                    "extract_message"), "system")>>,
              <<"AWS", "infrastructure", "entities">>)
       /\ res.outcome = "ok" =>
             /\ res.msgs[1].role = "system"
             /\ ContentContains(res.msgs[1].content,
                                <<"AWS", "infrastructure", "entities">>)

\* C22 witness: such a call returned messages.
C22_Witness ==
    /\ AwsExtractMessageCall
    /\ res.outcome = "ok"
    /\ res.ret = "aws_node_versions"
    /\ ContentContains(res.msgs[1].content, <<"AWS", "infrastructure", "entities">>)

\* A successful extract_attributes call on a TemplateSet of the edge registry.
EdgeAttributesCall(r) ==
    /\ r.op = "template" /\ r.outcome = "ok"
    /\ r.set \in InitialEdgeSets
    /\ r.version = "extract_attributes"

\* The parts of a content that come from the context key `key`.
PartsOf(content, key) ==
    {i \in 1..Len(content) : content[i].fmt # "text" /\ content[i].name = key}

\* C23: for every TemplateSet of the edge registry, extract_attributes puts
\* the value of context['fact'] into the user message once, formatted by the
\* f-string and equal to the value given, and two calls on the same set with
\* different facts return the same system message.
C23_FactPassesThroughUnmodified ==
    [][ EdgeAttributesCall(res') =>
          /\ \E i \in 1..Len(res'.msgs[2].content) :
                /\ PartsOf(res'.msgs[2].content, "fact") = {i}
                /\ res'.msgs[2].content[i] = ValuePart("str", "fact", res'.ctx["fact"])
          /\ PartsOf(res'.msgs[1].content, "fact") = {}
          /\ (EdgeAttributesCall(res) /\ res.set = res'.set)
                => res'.msgs[1] = res.msgs[1] ]_vars

\* C23 witness: the AWS edge set rendered the structured fact into its user
\* message.
C23_Witness ==
    /\ EdgeAttributesCall(res)
    /\ res.set = "aws_edge_versions"
    /\ res.ctx["fact"] # ContentValue("fact")
    /\ res.ctx["fact"] \in FactValues
    /\ \E i \in 1..Len(res.msgs[2].content) :
          /\ res.msgs[2].content[i].name = "fact"
          /\ res.msgs[2].content[i].v = res.ctx["fact"]

\* An entity with a name whose entity_type_id is an id of the provided list,
\* or None.
ClassifiedOrUnclassifiable(data) ==
    /\ DOMAIN data = {"name", "entity_type_id"}
    /\ data["name"].t = "str"
    /\ \/ data["entity_type_id"].t = "NoneType"
       \/ data["entity_type_id"].t = "int" /\ data["entity_type_id"].v \in EntityTypeIds

\* C24: the ExtractedEntity schema accepts every entity that has a name and
\* an entity_type_id that is an integer of the provided type list or None.
C24_SchemaAcceptsClassifiedOrNull ==
    (res.op = "ExtractedEntity" /\ ClassifiedOrUnclassifiable(res.ctx))
       => res.outcome = "ok"

\* The attributes a PromptTypeWrapper built from the versions of a wrapper has.
StaticAttributes(wrapper) ==
    DOMAIN PromptTypeWrapper(DefaultVersions(IF wrapper = "static" THEN "extract_nodes"
                                             ELSE wrapper))

\* A call without source_description of an operation the versions define
\* invokes the function a PromptTypeWrapper would, and suffixes its system
\* messages only.
SameMessagesWhenDefined ==
    (/\ res.op = "call" /\ ~Tagged(res.ctx)
     /\ res.version \in StaticAttributes(res.wrapper))
       => /\ res.func = DefaultVersions(res.wrapper)[res.version]
          /\ res.outcome = "ok" =>
                /\ Len(res.msgs) = Len(res.raw)
                /\ \A i \in 1..Len(res.msgs) :
                      /\ res.msgs[i].role = res.raw[i].role
                      /\ res.msgs[i].content =
                            IF res.raw[i].role = "system"
                            THEN res.raw[i].content \o <<SuffixPart>>
                            ELSE res.raw[i].content

\* The attribute lookup of an operation the versions do not define raises
\* AttributeError and yields no callable.
SameFailureWhenUndefined ==
    (res.op = "getattr" /\ res.version \notin StaticAttributes(res.wrapper))
       => /\ res.outcome = "AttributeError"
          /\ res.errkey = res.version
          /\ held = NoCallable

\* C25: a DynamicPromptTypeWrapper behaves as a PromptTypeWrapper built from
\* the same versions on contexts without source_description: the same
\* suffixed messages for an operation the versions define, and AttributeError
\* at the attribute lookup for one they do not.
C25_SameInterfaceAsPromptTypeWrapper ==
    SameMessagesWhenDefined /\ SameFailureWhenUndefined

\* Keys whose resolution is compared before and after a registration.
ObservedKeys == DomainMappingKeys \cup LookupKeys \cup {"no_such_key"}

\* C26: a registration in a family changes, in that family, the resolution
\* of no key other than its own, whether the key initially shared a
\* TemplateSet with the registered key or is unregistered, and the default
\* sets are in every state the initial ones.
C26_RegistrationChangesOneKey ==
    [][/\ res'.op = "register_node_prompts"
             => \A j \in ObservedKeys \ {res'.key} :
                   get_node_prompts(prompt_selector', j).ret
                      = get_node_prompts(prompt_selector, j).ret
       /\ res'.op = "register_edge_prompts"
             => \A j \in ObservedKeys \ {res'.key} :
                   get_edge_prompts(prompt_selector', j).ret
                      = get_edge_prompts(prompt_selector, j).ret
       /\ prompt_selector'.default_nodes = PromptSelectorInit.default_nodes
       /\ prompt_selector'.default_edges = PromptSelectorInit.default_edges]_vars

\* C26 witness: after register_node_prompts replaced the entry of
\* github_resources, first with one set and then with another, github_repo
\* still resolved to the GitHub set.
C26_Witness ==
    /\ res.op = "get_node_prompts"
    /\ res.key = "github_repo"
    /\ res.after.op = "register_node_prompts"
    /\ res.after.key = "github_resources"
    /\ res.after.old \in NodePool
    /\ NodeRegistry["github_resources"] \in NodePool \ {res.after.old}
    /\ res.ret = "github_node_versions"

\* C27: the registries and the default sets change only in a step of
\* register_node_prompts or register_edge_prompts: an attribute lookup on a
\* wrapper and a wrapped call, whether it returns or raises and whether the
\* selector finds the key or falls back, leave the selector as it was.
C27_OnlyRegistrationWritesTheSelector ==
    [][res'.op \notin {"register_node_prompts", "register_edge_prompts"}
          => prompt_selector' = prompt_selector]_vars

\* C27 witness: a dynamic call tagged with an unregistered key fell back with
\* a warning and then failed in the template; the key is in no registry and
\* the node registry is the initial one.
C27_Witness ==
    /\ res.op = "call" /\ res.wrapper = "extract_nodes"
    /\ Tagged(res.ctx) /\ res.ctx["source_description"] = "unknown_vertical_xyz"
    /\ Warned(res)
    /\ res.outcome = "KeyError"
    /\ "unknown_vertical_xyz" \notin DOMAIN NodeRegistry \cup DOMAIN EdgeRegistry
    /\ NodeRegistry = InitialNodeRegistry

\* The TemplateSet the selector returns for context.get('source_description', '').
SelectedFor(prompt_type, c) ==
    LET sd == DictGet(c, "source_description", "")
    IN  IF prompt_type = "extract_edges"
        THEN get_edge_prompts(prompt_selector, sd).ret
        ELSE get_node_prompts(prompt_selector, sd).ret

\* The context has no source_description, an empty one or an unregistered one.
NoRegisteredTag(prompt_type, c) ==
    \/ ~Tagged(c)
    \/ c["source_description"] = ""
    \/ c["source_description"] \notin DOMAIN RegistryOf(prompt_type)

\* C28: a dynamic call of an operation the default set defines invokes the
\* same-named function of the TemplateSet the selector returns for
\* context.get('source_description', '') when that set defines it, the
\* default set's function otherwise; contexts without source_description, or
\* with an empty or unregistered one, all invoke the default set's function.
C28_InvokesTheSelectedFunction ==
    (/\ res.op = "call" /\ res.wrapper \in DynamicFamilies
     /\ res.version \in DOMAIN DefaultVersions(res.wrapper))
       => LET set == SelectedFor(res.wrapper, res.ctx)
              dflt == Versions(DefaultSetOf(res.wrapper))[res.version]
          IN  /\ res.func = IF res.version \in DOMAIN Versions(set)
                            THEN Versions(set)[res.version]
                            ELSE dflt
              /\ NoRegisteredTag(res.wrapper, res.ctx) => res.func = dflt

\* C28 witness: with a caller's set registered under the AWS key, a call of
\* extract_text tagged with an unregistered key invoked the generic
\* extract_text and returned its messages.
C28_Witness ==
    /\ res.op = "call" /\ res.wrapper = "extract_nodes"
    /\ res.version = "extract_text"
    /\ Tagged(res.ctx) /\ res.ctx["source_description"] = "unknown_vertical_xyz"
    /\ "unknown_vertical_xyz" \notin DOMAIN NodeRegistry
    /\ NodeRegistry["aws_resources"] \in NodePool
    /\ res.func = TemplateFn("nodes", "generic_node_versions", "extract_text")
    /\ res.outcome = "ok"

\* The label of the wrapper's log record of a call.
Labelled(r, tags) == r.wlog # <<>> /\ r.wlog[1].tag \in tags

\* C29: the wrapper's log record says DOMAIN-SPECIFIC only when the function
\* invoked is the operation of a TemplateSet registered under the context's
\* source_description, and says DEFAULT when the selector fell back to the
\* default set (no, empty or unregistered source_description) or the
\* operation was taken from the default versions.
C29_LogNamesWhatServed ==
    (res.op = "call" /\ res.wrapper \in DynamicFamilies /\ res.wlog # <<>>)
       => /\ Labelled(res, {"DOMAIN-SPECIFIC"})
                => /\ ~NoRegisteredTag(res.wrapper, res.ctx)
                   /\ res.version \in DOMAIN Versions(ResolvedFor(res.wrapper, res.ctx))
                   /\ res.func = Versions(ResolvedFor(res.wrapper, res.ctx))[res.version]
          /\ (\/ NoRegisteredTag(res.wrapper, res.ctx)
              \/ res.version \notin DOMAIN Versions(ResolvedFor(res.wrapper, res.ctx)))
                => Labelled(res, {"DEFAULT", "DEFAULT_no_source_description"})

\* get_node_prompts(k) returns an entry of the node registry, not the
\* fallback.
ResolvesRegistered(k) ==
    get_node_prompts(prompt_selector, k).log[1].tag = "found"

\* The helpers agree with each other on k.
HelpersAgree(k) ==
    /\ validate_source_description(k)
          <=> get_domain_from_source_description(k) # "generic"
    /\ get_subdomain_from_source_description(k) # "generic"
          => get_domain_from_source_description(k) # "generic"

\* C30 (as stated): for every key the helpers agree with each other and,
\* whatever has been registered, the key is valid exactly when
\* get_node_prompts returns a registered TemplateSet for it.
C30_AsStated ==
    \A k \in ObservedKeys :
       /\ HelpersAgree(k)
       /\ validate_source_description(k) <=> ResolvesRegistered(k)

\* C30: for every key the helpers agree with each other; a valid key always
\* resolves to a registered TemplateSet in the node family, and a key that
\* resolves to a registered TemplateSet is valid or was written by a
\* registration.
C30_HelpersAgreeWithInitialRegistry ==
    \A k \in ObservedKeys :
       /\ HelpersAgree(k)
       /\ validate_source_description(k) => ResolvesRegistered(k)
       /\ ResolvesRegistered(k)
             => validate_source_description(k) \/ k \in DOMAIN written.nodes

\* C30 witness: get_node_prompts returned the set registered under a key that
\* the helpers do not recognize, while application_resources is valid, of
\* domain application, and resolves to its registered set.
C30_Witness ==
    /\ res.op = "get_node_prompts" /\ res.key = "unknown_vertical_xyz"
    /\ res.ret \in NodePool
    /\ res.log[1].tag = "found"
    /\ ~validate_source_description(res.key)
    /\ get_domain_from_source_description(res.key) = "generic"
    /\ validate_source_description("application_resources")
    /\ get_domain_from_source_description("application_resources") = "application"
    /\ ResolvesRegistered("application_resources")

==========================================================================
